---- MODULE Spec2Model ----
(***************************************************************************)
(* State-machine model of the retrieval-augmented-generation core of the   *)
(* mental-health chat backend: the safety gate (src/core/safety.py), the   *)
(* result cache (src/core/semantic_cache.py), the hybrid retriever, the    *)
(* reranker, the context assembler, the response generator and the         *)
(* pipeline orchestration (src/services/rag_service.py), and the two chat  *)
(* endpoints that drive them (src/api/v1/chat.py, chat_stream.py).         *)
(*                                                                         *)
(* Conventions.                                                            *)
(*  - A Python string that is scanned character by character (a message,   *)
(*    a keyword, the sos_keywords setting) is a sequence of one-character  *)
(*    strings.                                                             *)
(*  - An Optional value is a sequence: <<>> is None, <<v>> is the value v. *)
(*  - Fractions are fixed point: alpha, similarities and normalised BM25   *)
(*    scores are counted in halves, fused scores and distances in quarters.*)
(***************************************************************************)
EXTENDS Integers, Sequences, FiniteSets, TLC

VARIABLES
    now,            \* time.time(), in seconds
    sosSetting,     \* SystemSetting row "sos_keywords": <<>> or <<value>>
    sosCache,       \* safety._sos_keywords_cache: <<>> or <<keyword list>>
    sosCacheTime,   \* safety._sos_keywords_cache_time: <<>> or <<time>>
    session,        \* Redis session hash of the one client: conversation_id state
    auditLog,       \* rows of the audit_logs table (the durable audit trail)
    redis,          \* Redis keys "rag_cache:*": digest -> <<>> or <<entry>>
    store,          \* Document Store collection: sequence of chunks
    bm25,           \* RAGService._bm25_cache*/_corpus_*: <<>> or <<index>>
    lastModel,      \* rag_service._last_working_model: <<>> or <<model>>
    chat,           \* the last chat request that finished, with what it did
    rq,             \* the last rag_query call that finished, with what it did
    hs,             \* the last hybrid_search call that finished
    sk,             \* the last check_sos_keywords call: text, keywords, result
    files,          \* the PDF files of the ./data directory
    kb,             \* the last knowledge-base operation or search that finished
    gn,             \* the last call of the response generator, with what it did
    chroma,         \* vector_store._chroma_client and _chroma_client_last_check
    cc,             \* the last get_chroma_client call, with what it did
    es,             \* the chat event stream in flight, step by step
    asm,            \* the last rerank_results / build_context call
    pr,             \* the requests in flight on the event loop, step by step
    cfg             \* SystemSetting rows sys_prompt and crisis_hotlines, their caches

\* state of knowledge-base administration, the generator, the connection pool,
\* the event stream and the context assembler
auxVars == <<files, kb, gn, chroma, cc, es, asm, pr, cfg>>

vars == <<now, sosSetting, sosCache, sosCacheTime, session, auditLog, redis,
          store, bm25, lastModel, chat, rq, hs, sk, files, kb, gn, chroma, cc,
          es, asm, pr, cfg>>

-----------------------------------------------------------------------------
(* Generic helpers *)

None == <<>>

Some(v) == <<v>>

Min(a, b) == IF a <= b THEN a ELSE b

\* s[:n] of Python, for n >= 0
Take(s, n) == SubSeq(s, 1, Min(n, Len(s)))

\* all sequences over S of length lo..hi
SeqsOf(S, lo, hi) == UNION {[1..n -> S] : n \in lo..hi}

-----------------------------------------------------------------------------
(* Characters and strings *)

\* characters that the regex class \w matches
WordChars == {"a", "A"}

\* characters that \w does not match: white space and punctuation
Space == " "

NonWordChars == {Space, "!"}

Chars == WordChars \cup NonWordChars

IsWordChar(c) == c \in WordChars

\* str.lower(), character by character
LowerChar(c) == IF c = "A" THEN "a" ELSE c

Lower(s) == [i \in 1..Len(s) |-> LowerChar(s[i])]

\* str.strip(): leading and trailing white space removed
RECURSIVE LStrip(_)
LStrip(s) == IF s # <<>> /\ Head(s) = Space THEN LStrip(Tail(s)) ELSE s

RECURSIVE RStrip(_)
RStrip(s) ==
    IF s # <<>> /\ s[Len(s)] = Space THEN RStrip(SubSeq(s, 1, Len(s) - 1)) ELSE s

Strip(s) == RStrip(LStrip(s))

\* str.split(","): the pieces between commas, empty pieces included
RECURSIVE SplitComma(_, _)
SplitComma(s, piece) ==
    IF s = <<>> THEN <<piece>>
    ELSE IF Head(s) = "," THEN <<piece>> \o SplitComma(Tail(s), <<>>)
    ELSE SplitComma(Tail(s), Append(piece, Head(s)))

-----------------------------------------------------------------------------
(* Safety gate: src/core/safety.py *)

SOS_CACHE_TTL == 300

\* The built-in keyword list, on the model's alphabet: a one-word keyword and
\* a two-word keyword, all of word characters and inner white space like the
\* thirteen Vietnamese keywords of the source.
DEFAULT_SOS_KEYWORDS == << <<"a", "a">>, <<"a", " ", "a", "a">> >>

\* [kw.strip() for kw in value.split(",") if kw.strip()]
RECURSIVE StripNonEmpty(_)
StripNonEmpty(pieces) ==
    IF pieces = <<>> THEN <<>>
    ELSE IF Strip(Head(pieces)) # <<>>
         THEN <<Strip(Head(pieces))>> \o StripNonEmpty(Tail(pieces))
         ELSE StripNonEmpty(Tail(pieces))

ParseKeywords(value) == StripNonEmpty(SplitComma(value, <<>>))

\* The cache test of load_sos_keywords (lines 73-75).
SosCacheValid(cache, cacheTime, t) ==
    /\ cache # None
    /\ cacheTime # None
    /\ t - cacheTime[1] < SOS_CACHE_TTL

\* A faulty variant of load_sos_keywords: when the read raises it answers with
\* the expired cached list, or with no keyword at all when nothing is cached.
load_sos_keywords_stale(cache, cacheTime, t, setting, readRaises) ==
    IF SosCacheValid(cache, cacheTime, t)
    THEN [keywords |-> cache[1], cache |-> cache, cacheTime |-> cacheTime,
          read |-> FALSE, raised |-> FALSE]
    ELSE IF readRaises
    THEN [keywords |-> IF cache # None THEN cache[1] ELSE <<>>, cache |-> cache,
          cacheTime |-> cacheTime, read |-> TRUE, raised |-> FALSE]
    ELSE LET keywords == IF setting # None /\ setting[1] # <<>>
                         THEN ParseKeywords(setting[1])
                         ELSE DEFAULT_SOS_KEYWORDS
         IN [keywords |-> keywords, cache |-> Some(keywords),
             cacheTime |-> Some(t), read |-> TRUE, raised |-> FALSE]

\* load_sos_keywords(db): the list returned and the module cache afterwards.
\* setting is the sos_keywords row (None when absent), readRaises says that
\* db.execute raises.  "read" records whether the configuration store was read.
load_sos_keywords(cache, cacheTime, t, setting, readRaises) ==
    IF SosCacheValid(cache, cacheTime, t)
    THEN [keywords |-> cache[1], cache |-> cache, cacheTime |-> cacheTime,
          read |-> FALSE, raised |-> FALSE]
    ELSE IF readRaises
    THEN [keywords |-> DEFAULT_SOS_KEYWORDS, cache |-> cache,
          cacheTime |-> cacheTime, read |-> TRUE, raised |-> FALSE]
    ELSE LET keywords == IF setting # None /\ setting[1] # <<>>
                         THEN ParseKeywords(setting[1])
                         ELSE DEFAULT_SOS_KEYWORDS
         IN [keywords |-> keywords, cache |-> Some(keywords),
             cacheTime |-> Some(t), read |-> TRUE, raised |-> FALSE]

\* The regex assertion \b at offset p of s (between s[p] and s[p+1]): exactly
\* one side is a word character; outside the string counts as non-word.
WordBoundary(s, p) ==
    LET before == p >= 1 /\ IsWordChar(s[p])
        after == p < Len(s) /\ IsWordChar(s[p + 1])
    IN before # after

\* re.search(r'\b' + re.escape(kw) + r'\b', s)
RegexSearch(kw, s) ==
    \E st \in 1..(Len(s) - Len(kw) + 1) :
        /\ SubSeq(s, st, st + Len(kw) - 1) = kw
        /\ WordBoundary(s, st - 1)
        /\ WordBoundary(s, st + Len(kw) - 1)

\* check_sos_keywords(text, keywords), with the keyword list given (both
\* endpoints pass the list load_sos_keywords returned).
check_sos_keywords(text, keywords) ==
    \E i \in 1..Len(keywords) : RegexSearch(Lower(keywords[i]), Lower(text))

-----------------------------------------------------------------------------
(* Embedding capability and Result Cache: src/core/semantic_cache.py *)

CACHE_TTL == 3600

\* genai.embed_content: the vector of a text.  The capability is a
\* deterministic function of the text; the model keeps the text it came from
\* as the vector's identity.
Embedding(text) == [vec |-> text]

\* json.dumps / json.loads of the cache payload: the dictionary becomes a
\* JSON text and back; Redis stores the text.
json_dumps(data) == [json |-> <<"response", data.response, "sources", data.sources>>]

json_loads(text) == [response |-> text.json[2], sources |-> text.json[4]]

\* SemanticCache._generate_cache_key: prefix + the first 16 hex digits of the
\* SHA-256 of the serialised vector.  The 64-bit digest is modelled as free of
\* collisions on the vectors of the model.
generate_cache_key(query_embedding) == <<"rag_cache:", "sha256", query_embedding.vec>>

\* Redis GET: nil for an absent or expired key
RedisGet(r, t, key) ==
    IF key \in DOMAIN r /\ r[key] # None /\ t < r[key][1].expiry
    THEN Some(r[key][1].data) ELSE None

\* A faulty variant of the write: SET with NX, a live key keeps its value
RedisSetnx(r, t, key, ttl, data) ==
    [k \in DOMAIN r \cup {key} |->
        IF k = key /\ ~(key \in DOMAIN r /\ r[key] # None /\ t < r[key][1].expiry)
        THEN Some([data |-> data, expiry |-> t + ttl])
        ELSE r[k]]

\* Redis SETEX key ttl data
RedisSetex(r, t, key, ttl, data) ==
    [k \in DOMAIN r \cup {key} |->
        IF k = key THEN Some([data |-> data, expiry |-> t + ttl]) ELSE r[k]]

\* Redis active expiry: keys whose time to live has run out are gone
RedisExpire(r, t) ==
    [k \in DOMAIN r |-> IF r[k] # None /\ t < r[k][1].expiry THEN r[k] ELSE None]

\* A faulty variant of the lookup: every lookup is a miss
SemanticCache_get_miss(r, t, query_embedding, redisFails) == None

\* SemanticCache.get: <<response, sources>> on a hit, None on a miss or error
SemanticCache_get(r, t, query_embedding, redisFails) ==
    IF redisFails THEN None
    ELSE LET cached_data == RedisGet(r, t, generate_cache_key(query_embedding))
         IN IF cached_data # None
            THEN LET data == json_loads(cached_data[1])
                 IN Some(<<data.response, data.sources>>)
            ELSE None

\* SemanticCache.set: the keyspace afterwards and the value returned
SemanticCache_set(r, t, query_embedding, response, sources, redisFails) ==
    IF redisFails THEN [redis |-> r, ok |-> FALSE]
    ELSE [redis |-> RedisSetex(r, t, generate_cache_key(query_embedding), CACHE_TTL,
                               json_dumps([response |-> response, sources |-> sources])),
          ok |-> TRUE]

\* SemanticCache.clear_all: every live "rag_cache:*" key is deleted
SemanticCache_clear_all(r, t, redisFails) ==
    IF redisFails THEN [redis |-> r, deleted |-> 0]
    ELSE [redis |-> [k \in DOMAIN r |-> None],
          deleted |-> Cardinality({k \in DOMAIN r : RedisGet(r, t, k) # None})]

-----------------------------------------------------------------------------
(* Document Store and lexical index: src/services/rag_service.py *)

BM25_CACHE_TTL == 300

\* A chunk text is known by its identity and its length in characters.
TextIds == {"t1", "t2"}

TextLen(s) == IF s = "t1" THEN 120 ELSE 230

Texts == {[s |-> s, len |-> TextLen(s)] : s \in TextIds}

\* Metadata of the chunk ingest_pdf stores at position i of a file
\* (src/src/scripts/ingest.py lines 143-148), i counted from 1.
ChunkMeta(i) == [source |-> "doc1.pdf", page |-> (i - 1) \div 2, chunk_index |-> i - 1]

\* The chunk id ingest_pdf gives: f"{filename}_{i+j}"
ChunkId(meta) == <<meta.source, meta.chunk_index>>

\* A store holding the given texts as the chunks of one ingested file
StoreOf(texts) == [i \in 1..Len(texts) |-> [text |-> texts[i], meta |-> ChunkMeta(i)]]

NoIndex == [cache |-> None, cache_time |-> None, corpus |-> None, metadatas |-> None]

\* BM25Okapi(tokenized_corpus): the index is a function of the corpus
BM25Okapi(documents) == [corpus |-> documents]

\* A faulty variant of the getter: a cached index is used whatever its age
get_bm25_index_no_ttl(b, st, t) ==
    IF b.cache # None
    THEN [index |-> b.cache, documents |-> b.corpus[1], metadatas |-> b.metadatas[1],
          bm25 |-> b, fetched |-> FALSE]
    ELSE IF st = <<>>
    THEN [index |-> None, documents |-> <<>>, metadatas |-> <<>>, bm25 |-> b,
          fetched |-> TRUE]
    ELSE [index |-> Some(BM25Okapi([i \in 1..Len(st) |-> st[i].text])),
          documents |-> [i \in 1..Len(st) |-> st[i].text],
          metadatas |-> [i \in 1..Len(st) |-> st[i].meta],
          bm25 |-> [cache |-> Some(BM25Okapi([i \in 1..Len(st) |-> st[i].text])),
                    cache_time |-> Some(t),
                    corpus |-> Some([i \in 1..Len(st) |-> st[i].text]),
                    metadatas |-> Some([i \in 1..Len(st) |-> st[i].meta])],
          fetched |-> TRUE]

\* RAGService._get_bm25_index: the triple returned, the cache attributes
\* afterwards, and whether collection.get was called.
get_bm25_index(b, st, t) ==
    IF b.cache # None /\ b.cache_time # None /\ t - b.cache_time[1] < BM25_CACHE_TTL
    THEN [index |-> b.cache,
          documents |-> IF b.corpus # None THEN b.corpus[1] ELSE <<>>,
          metadatas |-> IF b.metadatas # None THEN b.metadatas[1] ELSE <<>>,
          bm25 |-> b, fetched |-> FALSE]
    ELSE LET documents == [i \in 1..Len(st) |-> st[i].text]
             metadatas == [i \in 1..Len(st) |-> st[i].meta]
         IN IF documents = <<>>
            THEN [index |-> None, documents |-> <<>>, metadatas |-> <<>>,
                  bm25 |-> b, fetched |-> TRUE]
            ELSE [index |-> Some(BM25Okapi(documents)),
                  documents |-> documents, metadatas |-> metadatas,
                  bm25 |-> [cache |-> Some(BM25Okapi(documents)),
                            cache_time |-> Some(t),
                            corpus |-> Some(documents),
                            metadatas |-> Some(metadatas)],
                  fetched |-> TRUE]

\* RAGService.invalidate_bm25_cache
invalidate_bm25_cache(b) == NoIndex

-----------------------------------------------------------------------------
(* Hybrid retriever, reranker, context assembler *)

\* Raw BM25 scores the rank_bm25 library can give a document (it gives
\* negative scores on tiny corpora), and cosine distances of the store.
Bm25Scores == {-1, 0, 1, 2}

Distances == {0, 1, 2}

\* alpha in halves: 0, 1/2, 1
Alphas == {0, 1, 2}

RECURSIVE MaxOf(_)
MaxOf(s) == IF Len(s) = 1 THEN s[1]
            ELSE LET m == MaxOf(Tail(s)) IN IF s[1] >= m THEN s[1] ELSE m

\* The answers collection.query may give for n_results = n: the n chunks of
\* the store nearest to the query (all of them when the store holds fewer),
\* ties broken either way, nearest first.
NearestSets(st, qd, n) ==
    {V \in SUBSET (1..Len(st)) :
        /\ Cardinality(V) = Min(n, Len(st))
        /\ \A i \in V : \A j \in (1..Len(st)) \ V :
              qd[st[i].text.s] <= qd[st[j].text.s]}

RECURSIVE OrderNearest(_, _, _)
OrderNearest(st, qd, V) ==
    IF V = {} THEN <<>>
    ELSE LET i == CHOOSE x \in V : \A y \in V :
                     \/ qd[st[x].text.s] < qd[st[y].text.s]
                     \/ (qd[st[x].text.s] = qd[st[y].text.s] /\ x <= y)
         IN <<[id |-> ChunkId(st[i].meta), doc |-> st[i].text,
               distance |-> qd[st[i].text.s]]>> \o OrderNearest(st, qd, V \ {i})

\* vector_distance_map of hybrid_search (lines 264-271): similarity, in
\* halves, under the document TEXT of each vector result, later results
\* overwriting earlier ones.
RECURSIVE VectorDistanceMap(_)
VectorDistanceMap(vres) ==
    IF vres = <<>> THEN <<>>
    ELSE LET m == VectorDistanceMap(SubSeq(vres, 1, Len(vres) - 1))
             last == vres[Len(vres)]
         IN [d \in DOMAIN m \cup {last.doc} |->
                IF d = last.doc THEN 2 - last.distance ELSE m[d]]

\* the sort key of line 294: x.score if x.score else 0
SortKey(x) == IF x.score # 0 THEN x.score ELSE 0

\* list.sort(key, reverse=True): stable, descending
RECURSIVE InsertDesc(_, _)
InsertDesc(s, x) ==
    IF s = <<>> THEN <<x>>
    ELSE IF SortKey(Head(s)) >= SortKey(x) THEN <<Head(s)>> \o InsertDesc(Tail(s), x)
    ELSE <<x>> \o s

RECURSIVE SortDesc(_)
SortDesc(s) ==
    IF s = <<>> THEN <<>>
    ELSE InsertDesc(SortDesc(SubSeq(s, 1, Len(s) - 1)), s[Len(s)])

\* Lines 248-249: BM25 scores divided by their maximum (1 when it is not
\* positive), in halves; exact for the scores of Bm25Scores.
NormalizeBm25(scores) ==
    LET max_bm25 == IF MaxOf(scores) > 0 THEN MaxOf(scores) ELSE 1
    IN [i \in 1..Len(scores) |-> (2 * scores[i]) \div max_bm25]

\* A faulty variant of the fusion: the two weights are exchanged
CombineScoresSwapped(documents, metadatas, bm25_scores_norm, map, alpha) ==
    [i \in 1..Len(documents) |->
        [content |-> documents[i],
         source |-> metadatas[i].source,
         page |-> metadatas[i].page,
         distance |-> 4 - ((2 - alpha) * (IF documents[i] \in DOMAIN map
                                           THEN map[documents[i]] ELSE 0)
                           + alpha * bm25_scores_norm[i]),
         score |-> (2 - alpha) * (IF documents[i] \in DOMAIN map
                                  THEN map[documents[i]] ELSE 0)
                   + alpha * bm25_scores_norm[i]]]

\* Lines 274-291: one SearchResult per document of the index, score and
\* distance in quarters.
CombineScores(documents, metadatas, bm25_scores_norm, map, alpha) ==
    [i \in 1..Len(documents) |->
        LET doc == documents[i]
            vector_score == IF doc \in DOMAIN map THEN map[doc] ELSE 0
            hybrid_score == alpha * vector_score + (2 - alpha) * bm25_scores_norm[i]
        IN [content |-> doc,
            source |-> metadatas[i].source,
            page |-> metadatas[i].page,
            distance |-> 4 - hybrid_score,
            score |-> hybrid_score]]

\* n_results of the vector query (line 258)
NResults(top_k, documents) == Min(top_k * 2, Len(documents))

\* Line 247: bm25.get_scores(tokenized_query), one score per indexed document
Bm25ScoresOf(documents, qs) == [i \in 1..Len(documents) |-> qs[documents[i].s]]

\* hybrid_search from line 240 on, g being what _get_bm25_index returned
hybrid_search_indexed(g, b, st, qs, qd, V, alpha, top_k, fail) ==
    IF g.fetched /\ fail = "get"
    THEN [results |-> <<>>, bm25 |-> b, store_calls |-> 2, failed |-> TRUE]
    ELSE IF g.index = None \/ g.documents = <<>>
    THEN [results |-> <<>>, bm25 |-> g.bm25,
          store_calls |-> 1 + (IF g.fetched THEN 1 ELSE 0), failed |-> FALSE]
    ELSE IF fail = "query"
    THEN [results |-> <<>>, bm25 |-> g.bm25,
          store_calls |-> 2 + (IF g.fetched THEN 1 ELSE 0), failed |-> TRUE]
    ELSE [results |->
             Take(SortDesc(CombineScores(g.documents, g.metadatas,
                              NormalizeBm25(Bm25ScoresOf(g.documents, qs)),
                              VectorDistanceMap(OrderNearest(st, qd, V)), alpha)),
                  top_k),
          bm25 |-> g.bm25,
          store_calls |-> 2 + (IF g.fetched THEN 1 ELSE 0), failed |-> FALSE]

\* RAGService.hybrid_search.  b: the index cache; st: the store; qs, qd: the
\* BM25 score and the cosine distance of each text for this query; V: the
\* store's answer to the vector query; fail: the Document Store operation
\* that raises ("none", "connect", "get", "query").  Every exception ends in
\* the empty list (lines 303-305).
hybrid_search(b, st, t, qs, qd, V, alpha, top_k, fail) ==
    IF fail = "connect"
    THEN [results |-> <<>>, bm25 |-> b, store_calls |-> 1, failed |-> TRUE]
    ELSE hybrid_search_indexed(get_bm25_index(b, st, t), b, st, qs, qd, V, alpha,
                               top_k, fail)

\* sorted(results, key=lambda x: x.distance): stable, ascending
RECURSIVE InsertAsc(_, _)
InsertAsc(s, x) ==
    IF s = <<>> THEN <<x>>
    ELSE IF Head(s).distance <= x.distance THEN <<Head(s)>> \o InsertAsc(Tail(s), x)
    ELSE <<x>> \o s

RECURSIVE SortAsc(_)
SortAsc(s) ==
    IF s = <<>> THEN <<>>
    ELSE InsertAsc(SortAsc(SubSeq(s, 1, Len(s) - 1)), s[Len(s)])

\* A faulty variant of the reranker: the sorted list is not cut to top_k
rerank_results_untruncated(results, top_k) == SortAsc(results)

\* RAGService.rerank_results
rerank_results(results, top_k) ==
    IF results = <<>> THEN <<>> ELSE Take(SortAsc(results), top_k)

SNIPPET_LEN == 200

\* A faulty variant of the snippet: a text of exactly 200 characters is cut
SnippetOffByOne(content) ==
    IF content.len >= SNIPPET_LEN
    THEN [s |-> content.s, len |-> SNIPPET_LEN, ellipsis |-> TRUE]
    ELSE [s |-> content.s, len |-> content.len, ellipsis |-> FALSE]

\* result.content[:200] + "..." if len(result.content) > 200 else result.content
Snippet(content) ==
    IF content.len > SNIPPET_LEN
    THEN [s |-> content.s, len |-> SNIPPET_LEN, ellipsis |-> TRUE]
    ELSE [s |-> content.s, len |-> content.len, ellipsis |-> FALSE]

\* RAGService.build_context: the numbered blocks and the sources list
build_context(results) ==
    [context |-> [i \in 1..Len(results) |->
                    [n |-> i, content |-> results[i].content,
                     source |-> results[i].source, page |-> results[i].page]],
     sources |-> [i \in 1..Len(results) |->
                    [title |-> results[i].source, page |-> results[i].page,
                     content_snippet |-> Snippet(results[i].content)]]]

-----------------------------------------------------------------------------
(* Response generator and pipeline orchestration *)

CANDIDATE_MODELS ==
    <<"gemini-2.0-flash-exp", "gemini-flash-latest", "gemini-1.5-flash", "gemini-pro">>

Models == {CANDIDATE_MODELS[i] : i \in 1..Len(CANDIDATE_MODELS)}

\* the fixed strings of rag_service.py (lines 475/479, 666 and 650-655)
APOLOGY_GENERATION == "Xin loi, toi gap su co khi xu ly cau hoi cua ban. Vui long thu lai sau."

APOLOGY_PIPELINE == "Xin loi, co loi xay ra. Vui long thu lai."

NO_CONTEXT_MESSAGE == "Xin loi, toi khong tim thay thong tin phu hop trong co so kien thuc"

\* What a model can answer: a text, with or without HTML-like tags around it
RawOutputs == {[text |-> "r1", tags |-> FALSE], [text |-> "r2", tags |-> TRUE]}

\* Lines 457-462: the tags are removed and the text is stripped
Sanitize(raw) == raw.text

\* A faulty variant of the priority list: the last working model is ignored
CandidateOrderFixed(last) == CANDIDATE_MODELS

\* Lines 425-436: the last working model first, then the others in order
CandidateOrder(last) ==
    IF last # None /\ last[1] \in Models
    THEN <<last[1]>> \o SelectSeq(CANDIDATE_MODELS, LAMBDA m : m # last[1])
    ELSE CANDIDATE_MODELS

\* RAGService.generate_response: modelOk says which models answer, raw is
\* the answer.  tried: the models called, in order.
generate_response(last, modelOk, raw) ==
    LET order == CandidateOrder(last)
        good == {i \in 1..Len(order) : modelOk[order[i]]}
    IN IF good = {}
       THEN [text |-> APOLOGY_GENERATION, lastModel |-> last, tried |-> order,
             ok |-> FALSE]
       ELSE LET first == CHOOSE i \in good : \A j \in good : i <= j
            IN [text |-> Sanitize(raw), lastModel |-> Some(order[first]),
                tried |-> SubSeq(order, 1, first), ok |-> TRUE]

RAG_SEARCH_TOP_K == 10

RAG_TOP_K == 3

DEFAULT_ALPHA == 1

NoCalls == [embed |-> 0, cache_get |-> 0, cache_set |-> 0, store |-> 0, gen |-> 0]

\* A faulty variant of the caching condition: the answer is stored whenever
\* the cache is enabled, found context or not.
ShouldCacheAlways(use_cache, context) == use_cache

\* Line 659: if use_cache and context
ShouldCache(use_cache, context) == use_cache /\ context # <<>>

\* What a call of rag_query did.  raised: an exception left the try block;
\* calls: the calls made to each capability; failed: the steps that failed.
RagBase(r, b, last) ==
    [raised |-> FALSE, response |-> "", sources |-> <<>>, redis |-> r, bm25 |-> b,
     lastModel |-> last, calls |-> NoCalls, hit |-> FALSE, context_empty |-> FALSE,
     stored |-> FALSE, failed |-> {}]

\* Line 662: return response, sources
rag_step_return(r, b, last, in, search, built, gen, caches, set) ==
    [RagBase(r, b, last) EXCEPT
        !.response = gen.text,
        !.sources = IF built.context # <<>> THEN built.sources ELSE <<>>,
        !.redis = set.redis, !.bm25 = search.bm25, !.lastModel = gen.lastModel,
        !.calls = [embed |-> 1, cache_get |-> IF in.use_cache THEN 1 ELSE 0,
                   cache_set |-> IF caches THEN 1 ELSE 0,
                   store |-> search.store_calls, gen |-> Len(gen.tried)],
        !.context_empty = built.context = <<>>,
        !.stored = set.ok,
        !.failed = (IF in.use_cache /\ in.getFails THEN {"cache_get"} ELSE {})
                     \cup (IF search.failed THEN {"retrieval"} ELSE {})
                     \cup (IF in.promptRaises THEN {"sys_prompt"} ELSE {})
                     \cup (IF gen.ok THEN {} ELSE {"generation"})
                     \cup (IF caches /\ in.setFails THEN {"cache_set"} ELSE {})]

\* Lines 658-660: the result is stored if the cache is on and context was found
rag_step_store(r, b, last, t, in, query_embedding, search, built, gen) ==
    rag_step_return(r, b, last, in, search, built, gen,
        ShouldCache(in.use_cache, built.context),
        IF ShouldCache(in.use_cache, built.context)
        THEN SemanticCache_set(r, t, query_embedding, gen.text,
                               IF built.context # <<>> THEN built.sources ELSE <<>>,
                               in.setFails)
        ELSE [redis |-> r, ok |-> FALSE])

\* Lines 640-656: the system prompt is loaded (a failure of the load gives
\* the default prompt); with context the generator answers, without it the
\* fixed message is the answer
rag_step_generate(r, b, last, t, in, query_embedding, search, built) ==
    rag_step_store(r, b, last, t, in, query_embedding, search, built,
        IF built.context # <<>>
        THEN generate_response(last, in.modelOk, in.raw)
        ELSE [text |-> NO_CONTEXT_MESSAGE, lastModel |-> last, tried |-> <<>>,
              ok |-> TRUE])

\* Lines 631-638: hybrid search for ten, rerank to three, build the context
rag_step_retrieve(r, b, last, t, in, query_embedding, search) ==
    rag_step_generate(r, b, last, t, in, query_embedding, search,
        build_context(rerank_results(search.results, RAG_TOP_K)))

\* Lines 620-632: a cached pair is returned at once, a miss goes on
rag_step_cache(r, b, st, last, t, in, query_embedding, cached_result) ==
    IF cached_result # None
    THEN [RagBase(r, b, last) EXCEPT !.response = cached_result[1][1],
                                     !.sources = cached_result[1][2],
                                     !.calls.embed = 1, !.calls.cache_get = 1,
                                     !.hit = TRUE]
    ELSE rag_step_retrieve(r, b, last, t, in, query_embedding,
            hybrid_search(b, st, t, in.qs, in.qd, in.V, DEFAULT_ALPHA,
                          RAG_SEARCH_TOP_K, in.storeFail))

\* The body of RAGService.rag_query inside its try block (lines 613-662).
\* r: Result Cache keyspace; b: lexical index cache; st: store; last: last
\* working model; t: time; in: the query, use_cache, and what the external
\* capabilities do during this call.
rag_query_body(r, b, st, last, t, in) ==
    IF in.embedFails
    THEN [RagBase(r, b, last) EXCEPT !.raised = TRUE, !.calls.embed = 1,
                                     !.failed = {"embedding"}]
    ELSE rag_step_cache(r, b, st, last, t, in, Embedding(in.query),
            IF in.use_cache
            THEN SemanticCache_get(r, t, Embedding(in.query), in.getFails)
            ELSE None)

\* Lines 664-666: the catch-all of rag_query
rag_query_catch(body) ==
    IF body.raised
    THEN [body EXCEPT !.raised = FALSE, !.response = APOLOGY_PIPELINE,
                      !.sources = <<>>]
    ELSE body

\* RAGService.rag_query
rag_query(r, b, st, last, t, in) == rag_query_catch(rag_query_body(r, b, st, last, t, in))

\* RAGService.generate_response_stream, consumed to its end: the first three
\* candidate models in fixed order, the answer streamed as it comes (no tag
\* removal), the apology as the only fragment when no model answers.
STREAM_CANDIDATE_MODELS == SubSeq(CANDIDATE_MODELS, 1, 3)

generate_response_stream(modelOk, raw) ==
    LET order == STREAM_CANDIDATE_MODELS
        good == {i \in 1..Len(order) : modelOk[order[i]]}
    IN IF good = {}
       THEN [fragments |-> <<APOLOGY_GENERATION>>, tried |-> order, ok |-> FALSE]
       ELSE LET first == CHOOSE i \in good : \A j \in good : i <= j
            IN [fragments |-> <<raw>>, tried |-> SubSeq(order, 1, first), ok |-> TRUE]

-----------------------------------------------------------------------------
(* Chat endpoints: src/api/v1/chat.py, src/api/v1/chat_stream.py *)

\* safety.log_sos_detection: one SOS_DETECTED row, unless adding or
\* committing it fails (the failure is logged and swallowed).
log_sos_detection(log, user_id, commitFails) ==
    IF commitFails THEN log
    ELSE Append(log, [action |-> "SOS_DETECTED", user_id |-> user_id])

\* The state the handlers read and write
St == [now |-> now, sosSetting |-> sosSetting, sosCache |-> sosCache,
       sosCacheTime |-> sosCacheTime, session |-> session, auditLog |-> auditLog,
       redis |-> redis, store |-> store, bm25 |-> bm25, lastModel |-> lastModel]

\* What a finished request did.  outcome: "crisis", "answer", "http404",
\* "http500" (send_message) or "error" (an error frame of the stream);
\* db_failed: a database operation of the request raised.
ChatDone(endpoint, text, load, is_crisis, outcome, calls, audits, saved, env) ==
    [endpoint |-> endpoint, text |-> text, keywords |-> load.keywords,
     read |-> load.read, readRaised |-> load.readRaised,
     loadRaised |-> load.raised, is_crisis |-> is_crisis,
     outcome |-> outcome, calls |-> calls, audits |-> audits, saved |-> saved,
     db_failed |-> env.failAt # 0 \/ env.readRaises]

NoLoad == [keywords |-> <<>>, read |-> FALSE, readRaised |-> FALSE,
           raised |-> FALSE]

\* check_sos_keywords on the list l that load_sos_keywords returned
SafetyChecked(l, text, readRaises) ==
    [keywords |-> l.keywords, cache |-> l.cache, cacheTime |-> l.cacheTime,
     read |-> l.read, readRaised |-> l.read /\ readRaises, raised |-> l.raised,
     is_crisis |-> check_sos_keywords(text, l.keywords)]

\* The safety check both endpoints start with (chat.py 110-111,
\* chat_stream.py 56-57)
SafetyCheck(s, text, readRaises) ==
    SafetyChecked(load_sos_keywords(s.sosCache, s.sosCacheTime, s.now, s.sosSetting,
                                    readRaises), text, readRaises)

\* The module cache of safety.py after the check
WithSosCache(s, chk) ==
    [s EXCEPT !.sosCache = chk.cache, !.sosCacheTime = chk.cacheTime]

\* chat.py lines 192-243: the two messages are saved and the answer returned
send_message_answered(s, text, chk, env, commit, rag) ==
    [s EXCEPT !.redis = rag.redis, !.bm25 = rag.bm25, !.lastModel = rag.lastModel]
    @@ [out |-> ChatDone("send_message", text, chk, chk.is_crisis,
                         IF env.failAt = commit THEN "http500" ELSE "answer",
                         rag.calls, 0, env.failAt # commit, env)]

\* chat.py lines 156-243: the answer of send_message to a message that did
\* not trigger the gate.  commit: the number of the commit that saves the
\* two messages.
send_message_answer(s, text, chk, env, commit) ==
    send_message_answered(s, text, chk, env, commit,
        rag_query(s.redis, s.bm25, s.store, s.lastModel, s.now, env.rag))

\* A faulty variant of the crisis branch of send_message: the early return is
\* missing and the request goes on to the retrieval pipeline.
send_message_crisis_falls_through(s, text, chk, env, commit) ==
    send_message_answer(s, text, chk, env, commit)

\* chat.py lines 113-154: the crisis branch of send_message
send_message_crisis(s, text, chk, env, commit) ==
    IF env.failAt = commit
    THEN s @@ [out |-> ChatDone("send_message", text, chk, TRUE, "http500",
                                NoCalls, 0, FALSE, env)]
    ELSE [s EXCEPT !.auditLog = log_sos_detection(s.auditLog, None,
                                                  env.failAt = commit + 1)]
         @@ [out |-> ChatDone("send_message", text, chk, TRUE, "crisis", NoCalls,
                              IF env.failAt = commit + 1 THEN 0 ELSE 1, TRUE, env)]

\* chat.py lines 109-243: send_message from the safety check on
send_message_checked(s, text, env, commit, chk) ==
    IF chk.is_crisis
    THEN send_message_crisis(WithSosCache(s, chk), text, chk, env, commit)
    ELSE send_message_answer(WithSosCache(s, chk), text, chk, env, commit)

\* send_message of chat.py, from the session lookup to the response.
\* env.readRaises: the settings read raises; env.failAt: which commit of the
\* request fails (0: none); env.rag: what rag_query meets.
send_message(s, text, env) ==
    IF s.session = "none"
    THEN s @@ [out |-> ChatDone("send_message", text, NoLoad, FALSE, "http404",
                                NoCalls, 0, FALSE, env)]
    ELSE IF s.session = "pending" /\ env.failAt = 1
    THEN s @@ [out |-> ChatDone("send_message", text, NoLoad, FALSE, "http500",
                                NoCalls, 0, FALSE, env)]
    ELSE send_message_checked([s EXCEPT !.session = "conv"], text, env,
                              IF s.session = "pending" THEN 2 ELSE 1,
                              SafetyCheck(s, text, env.readRaises))

\* chat_stream.py lines 90-158: context, generation, saving, final frame
stream_answered(s, text, chk, env, search, gen) ==
    [s EXCEPT !.bm25 = search.bm25]
    @@ [out |-> ChatDone("chat_event_stream", text, chk, chk.is_crisis,
                         IF env.failAt = 1 THEN "error" ELSE "answer",
                         [NoCalls EXCEPT !.embed = 1, !.store = search.store_calls,
                                         !.gen = Len(gen.tried)],
                         0, env.failAt # 1, env)]

\* chat_stream.py lines 78-158: the frames after the safety check for a
\* message that did not trigger the gate
stream_answer(s, text, chk, env) ==
    IF s.session = "pending"
    THEN s @@ [out |-> ChatDone("chat_event_stream", text, chk, chk.is_crisis, "error",
                                NoCalls, 0, FALSE, env)]
    ELSE IF env.rag.embedFails
    THEN s @@ [out |-> ChatDone("chat_event_stream", text, chk, chk.is_crisis, "error",
                                [NoCalls EXCEPT !.embed = 1], 0, FALSE, env)]
    ELSE stream_answered(s, text, chk, env,
            hybrid_search(s.bm25, s.store, s.now, env.rag.qs, env.rag.qd,
                          env.rag.V, DEFAULT_ALPHA, RAG_SEARCH_TOP_K,
                          env.rag.storeFail),
            generate_response_stream(env.rag.modelOk, env.rag.raw))

\* chat_stream.py lines 59-76: the crisis branch of the stream.
\* uuid.UUID(conversation_id) raises on 'pending' and the commit may fail;
\* both end in the error frame of lines 160-167.
stream_crisis(s, text, chk, env) ==
    s @@ [out |-> ChatDone("chat_event_stream", text, chk, TRUE,
                           IF s.session = "pending" \/ env.failAt = 1
                           THEN "error" ELSE "crisis",
                           NoCalls, 0,
                           ~(s.session = "pending" \/ env.failAt = 1), env)]

\* chat_stream.py lines 55-158: the stream from the safety check on
stream_checked(s, text, env, chk) ==
    IF chk.is_crisis
    THEN stream_crisis(WithSosCache(s, chk), text, chk, env)
    ELSE stream_answer(WithSosCache(s, chk), text, chk, env)

\* chat_event_stream of chat_stream.py, consumed to its end.
chat_event_stream(s, text, env) ==
    IF s.session = "none"
    THEN s @@ [out |-> ChatDone("chat_event_stream", text, NoLoad, FALSE, "error",
                                NoCalls, 0, FALSE, env)]
    ELSE stream_checked(s, text, env, SafetyCheck(s, text, env.readRaises))

-----------------------------------------------------------------------------
(* Bounds and input sets *)

MaxAudit == 1

MaxSosTime == 300

SosTickStep == 300

\* The value the migration seeds: the built-in keywords, comma-separated
SeedSosValue == <<"a", "a", ",", "a", " ", "a", "a">>

\* Values an administrator may store: "a, A!,aa" and ",,"
SosSettingValues ==
    { <<"a", ",", " ", "A", "!", ",", "a", "a">>, <<",", ",">> }

\* admin/config.py _validate_config_value for key "sos_keywords"
ValidSosValue(value) ==
    /\ value # <<>>
    /\ Strip(value) # <<>>
    /\ Len(SplitComma(value, <<>>)) >= 3

\* Messages of the chat scenario: "aa" holds a built-in keyword, "a" holds a
\* keyword of the administrator's list only
ChatMessages == { <<"a", "a">>, <<"a">> }

CacheKeys == {generate_cache_key(Embedding(q)) : q \in ChatMessages}

AllOk == [m \in Models |-> TRUE]

NoneOk == [m \in Models |-> FALSE]

\* The answers the store may give to the vector query of a search for top_k
VectorAnswers(b, st, t, qd, top_k) ==
    NearestSets(st, qd, NResults(top_k, get_bm25_index(b, st, t).documents))

\* What rag_query may meet when a chat request runs it
ChatRagInputs(text) ==
    {[query |-> text, use_cache |-> TRUE, embedFails |-> ef, getFails |-> FALSE,
      setFails |-> FALSE, storeFail |-> sf, qs |-> [x \in TextIds |-> 1],
      qd |-> [x \in TextIds |-> 0], V |-> v, promptRaises |-> FALSE,
      modelOk |-> ok, raw |-> [text |-> "r1", tags |-> FALSE]] :
        ef \in BOOLEAN, sf \in {"none"}, ok \in {AllOk},
        v \in VectorAnswers(bm25, store, now, [x \in TextIds |-> 0], RAG_SEARCH_TOP_K)}

ChatEnvs(text) ==
    [readRaises : BOOLEAN, failAt : 0..3, rag : ChatRagInputs(text)]

IdleChat == ChatDone("none", <<>>, NoLoad, FALSE, "none", NoCalls, 0, FALSE,
                     [failAt |-> 0, readRaises |-> FALSE])

\* rq before any call: op is the operation that finished last ("rag_query",
\* "set", "get", "clear_all"), prevOp the one before it, seq their count
IdleRq ==
    [op |-> "none", prevOp |-> "none", seq |-> 0, time |-> 0, query |-> <<>>,
     use_cache |-> FALSE, response |-> "", sources |-> <<>>, calls |-> NoCalls,
     hit |-> FALSE, context_empty |-> FALSE, stored |-> FALSE, failed |-> {},
     raised |-> FALSE]

IdleHs ==
    [phase |-> "idle", qs |-> <<>>, qd |-> <<>>, top_k |-> 0, alpha |-> 0,
     V |-> {}, fail |-> "none", corpus |-> <<>>, results |-> <<>>]

IdleSk == [phase |-> "idle", text |-> <<>>, keywords |-> <<>>, result |-> FALSE]

\* kb before any operation: op is the operation that finished last
\* ("upload_pdf", "delete_knowledge_file", "reset_knowledge_base",
\* "purge_orphan_data", "search", "rag_query"), seq their count
IdleKb ==
    [op |-> "none", seq |-> 0, status |-> "none", fail |-> "none", top_k |-> 0,
     alpha |-> 0, fetched |-> FALSE, documents |-> <<>>, metadatas |-> <<>>,
     results |-> <<>>, response |-> "", sources |-> <<>>, hit |-> FALSE,
     redis_failed |-> FALSE]

\* gn before any call of the generator
IdleGn ==
    [op |-> "none", seq |-> 0, prevLast |-> None, modelOk |-> NoneOk,
     promptRaises |-> FALSE, tried |-> <<>>, ok |-> FALSE, text |-> "",
     fragments |-> <<>>, broke |-> FALSE, raised |-> FALSE]

\* vector_store module state at import: no client, last check 0
\* The module globals of vector_store.py as loaded: no client, last check 0.
\* heartbeat_at records when the current client last answered a heartbeat
\* (-1: never), which the code does not store.
NoChroma == [client |-> None, last_check |-> 0, heartbeat_at |-> -1]

\* cc before any call of get_chroma_client.  phase: "connecting" (in the
\* retry loop, about to attempt), "sleeping" (inside time.sleep), "returned",
\* "raised"; attempt, retry_delay, current_time: the locals of the call;
\* outcomes: what each connection attempt of the call did; sleeps: the waits
\* of the call; cached_heartbeat: whether the cached client was probed;
\* made: the client objects constructed so far.
IdleCc ==
    [phase |-> "idle", calls |-> 0, attempt |-> 0, retry_delay |-> 0,
     current_time |-> 0, outcomes |-> <<>>, sleeps |-> <<>>,
     cached_heartbeat |-> FALSE, result |-> None, made |-> 0]

\* es before any streaming request.  phase: where chat_event_stream stands
\* ("streaming": suspended at a yield between the sources event and the end
\* of the generation stream; "done", "error", "closed": finished, failed,
\* closed by a disconnect); fragments: what the generation stream of this
\* request holds; consumed: how many of them were pulled from it; sent: the
\* events yielded; pending: rows added to the session and not committed;
\* committed: the rows of the messages table; context: what build_context
\* made of the retrieval; models: the models the generation stream calls;
\* gen_calls: how many of them were called so far.
IdleEs ==
    [phase |-> "idle", request |-> 0, fragments |-> <<>>, consumed |-> 0,
     full_response |-> <<>>, sent |-> <<>>, pending |-> <<>>, committed |-> <<>>,
     context |-> <<>>, models |-> <<>>, gen_calls |-> 0]

\* asm before any call: mode says where the candidates come from ("given":
\* a list handed in, "search": the output of hybrid_search)
IdleAsm ==
    [op |-> "none", mode |-> "none", candidates |-> <<>>, top_k |-> 0,
     returned |-> <<>>, candidates_after |-> <<>>, context |-> <<>>,
     sources |-> <<>>, raised |-> FALSE]

\* The requests the concurrency specifications run side by side
RaceProcs == {1, 2}

\* A rag_query request before it starts.  pc: "retrieved" (suspended at the
\* await of load_sys_prompt, line 643, holding what it retrieved), "done";
\* runs: the queries this request slot has run.
IdleQry ==
    [pc |-> "idle", runs |-> 0, query |-> <<>>, hit |-> FALSE, context |-> <<>>,
     sources |-> <<>>, response |-> "", stored |-> FALSE]

\* A delete_knowledge_file request before it starts.  pc: "clearing"
\* (suspended inside clear_all between KEYS and DEL), "returned"; keys: the
\* keys KEYS delivered.
IdleDel == [pc |-> "idle", filename |-> "", keys |-> {}, status |-> "none"]

\* A caller of _get_bm25_index before it starts.  pc: the statement it is
\* at; current_time, documents, metadatas: its locals; ret: the triple it
\* returned; hit: it took the cached branch.
IdleRd ==
    [pc |-> "idle", runs |-> 0, current_time |-> 0, documents |-> <<>>,
     metadatas |-> <<>>, hit |-> FALSE,
     ret |-> [index |-> <<>>, documents |-> <<>>, metadatas |-> <<>>]]

\* An admin request that changes the corpus and invalidates the index
IdleAdm == [pc |-> "idle", runs |-> 0]

\* running: the request that holds the event loop (0: none; it is held from
\* one await to the next); builds: the corpus fetches made so far.
IdlePr ==
    [qry |-> [p \in RaceProcs |-> IdleQry], del |-> IdleDel,
     running |-> 0, rd |-> [p \in RaceProcs |-> IdleRd], adm |-> IdleAdm,
     builds |-> {}]

\* cfg as the modules are loaded.  hotlines_row, sys_row: the value of the
\* SystemSetting rows crisis_hotlines and sys_prompt (<<>>: no row);
\* *_cache, *_cache_time: the module caches of safety.py and rag_service.py;
\* op, seq: the operation that finished last and their count; hotlines: the
\* hotline list of the last crisis payload; prompt: what load_sys_prompt
\* returned last; read: whether that call read the configuration store;
\* sys_unset_since: since when the sys_prompt row is missing or empty;
\* sys_notfound_at: when a read last found it missing or empty.
IdleCfg ==
    [hotlines_row |-> <<>>, hotlines_cache |-> <<>>, hotlines_cache_time |-> <<>>,
     sys_row |-> <<>>, sys_cache |-> <<>>, sys_cache_time |-> <<>>,
     op |-> "none", seq |-> 0, hotlines |-> <<>>, prompt |-> <<>>, read |-> FALSE,
     sys_unset_since |-> <<>>, sys_notfound_at |-> <<>>]

\* The components a specification does not exercise stay as constructed
AuxIdle ==
    /\ files = {}
    /\ kb = IdleKb
    /\ gn = IdleGn
    /\ chroma = NoChroma
    /\ cc = IdleCc
    /\ es = IdleEs
    /\ asm = IdleAsm
    /\ pr = IdlePr
    /\ cfg = IdleCfg

-----------------------------------------------------------------------------
(* Specification of the chat endpoints *)

InitChat ==
    /\ now = 0
    /\ sosSetting \in {None, Some(SeedSosValue)}
    /\ sosCache = None
    /\ sosCacheTime = None
    /\ session = "none"
    /\ auditLog = <<>>
    /\ redis = [k \in CacheKeys |-> None]
    /\ store = StoreOf(<<[s |-> "t1", len |-> TextLen("t1")]>>)
    /\ bm25 = NoIndex
    /\ lastModel = None
    /\ chat = IdleChat
    /\ rq = IdleRq
    /\ hs = IdleHs
    /\ sk = IdleSk
    /\ AuxIdle

Finish(res) ==
    /\ sosCache' = res.sosCache
    /\ sosCacheTime' = res.sosCacheTime
    /\ session' = res.session
    /\ auditLog' = res.auditLog
    /\ redis' = res.redis
    /\ bm25' = res.bm25
    /\ lastModel' = res.lastModel
    /\ chat' = res.out
    /\ UNCHANGED <<now, sosSetting, store, rq, hs, sk, auxVars>>

\* POST /sessions/init: a fresh session, its conversation pending
InitSession ==
    /\ session' = "pending"
    /\ UNCHANGED <<now, sosSetting, sosCache, sosCacheTime, auditLog, redis, store,
                   bm25, lastModel, chat, rq, hs, sk, auxVars>>

\* POST /chat
SendMessage ==
    /\ Len(auditLog) < MaxAudit
    /\ \E text \in ChatMessages : \E env \in ChatEnvs(text) :
          Finish(send_message(St, text, env))

\* POST /chat/stream
ChatStream ==
    /\ Len(auditLog) < MaxAudit
    /\ \E text \in ChatMessages : \E env \in ChatEnvs(text) :
          Finish(chat_event_stream(St, text, env))

\* PUT /admin/config/sos_keywords: the row must exist, the value must pass
UpdateSosKeywords ==
    /\ sosSetting # None
    /\ \E value \in SosSettingValues :
          /\ ValidSosValue(value)
          /\ sosSetting' = Some(value)
    /\ UNCHANGED <<now, sosCache, sosCacheTime, session, auditLog, redis, store,
                   bm25, lastModel, chat, rq, hs, sk, auxVars>>

\* Time passes; expired Result Cache keys are gone
TickSos ==
    /\ now + SosTickStep <= MaxSosTime
    /\ now' = now + SosTickStep
    /\ redis' = RedisExpire(redis, now')
    /\ UNCHANGED <<sosSetting, sosCache, sosCacheTime, session, auditLog, store,
                   bm25, lastModel, chat, rq, hs, sk, auxVars>>

NextChat == InitSession \/ SendMessage \/ ChatStream \/ UpdateSosKeywords \/ TickSos

SpecChat == InitChat /\ [][NextChat]_vars

-----------------------------------------------------------------------------
(* Properties of the chat endpoints *)

\* kw occurs in text as a whole word at offset i, case-insensitively: the
\* characters agree and neither neighbour of the occurrence is a word
\* character.
WholeWordAt(text, kw, i) ==
    /\ i + Len(kw) - 1 <= Len(text)
    /\ \A j \in 1..Len(kw) : LowerChar(text[i + j - 1]) = LowerChar(kw[j])
    /\ (i > 1 => ~IsWordChar(text[i - 1]))
    /\ (i + Len(kw) <= Len(text) => ~IsWordChar(text[i + Len(kw)]))

HasWholeWord(text, kw) == \E i \in 1..Len(text) : WholeWordAt(text, kw, i)

HasKeyword(text, keywords) ==
    \E k \in 1..Len(keywords) : HasWholeWord(text, keywords[k])

\* C1: when the safety gate triggers on a request, on the non-streaming and
\* on the streaming endpoint alike, the request makes no call to the
\* embedding capability, the Document Store, the Result Cache or the
\* generation capability.
C1_CrisisMakesNoPipelineCall ==
    chat.is_crisis => chat.calls = NoCalls

\* A message with a keyword was answered with the crisis payload by
\* send_message, and its audit row written.
C1_Witness ==
    /\ chat.endpoint = "send_message"
    /\ chat.is_crisis
    /\ chat.outcome = "crisis"
    /\ chat.audits = 1

\* C2: every request on which the gate triggers produces exactly one
\* SOS_DETECTED audit row, whichever endpoint it arrived on, and a request
\* on which it does not trigger produces none.  Stated of the requests that
\* were answered (crisis payload or generated answer) with no database
\* operation raising.
C2_ExactlyOneAuditRow ==
    (chat.outcome \in {"crisis", "answer"} /\ ~chat.db_failed) =>
        chat.audits = (IF chat.is_crisis THEN 1 ELSE 0)

\* C3: when the read of the configuration store raises, load_sos_keywords
\* does not raise and returns the built-in list, whatever the cache held
\* before, so the list is not empty and a message holding a built-in keyword
\* still triggers the gate.
C3_DefaultsOnReadFailure ==
    chat.readRaised =>
        /\ ~chat.loadRaised
        /\ chat.keywords = DEFAULT_SOS_KEYWORDS
        /\ chat.keywords # <<>>
        /\ (HasKeyword(chat.text, DEFAULT_SOS_KEYWORDS) => chat.is_crisis)

\* The read raised while an expired cache held an administrator's list, and
\* the message holding a built-in keyword triggered the gate.
C3_Witness ==
    /\ chat.readRaised
    /\ sosCache # None
    /\ sosCache[1] # DEFAULT_SOS_KEYWORDS
    /\ HasKeyword(chat.text, DEFAULT_SOS_KEYWORDS)
    /\ chat.is_crisis

-----------------------------------------------------------------------------
(* Specification of check_sos_keywords as a function of its arguments *)

MaxSosTextLen == 3

MaxKeywordLen == 2

MaxSosKeywords == 1

\* Keywords as load_sos_keywords delivers them: stripped, not empty; here
\* with a word character in each
SosKeywords ==
    {kw \in SeqsOf(Chars, 1, MaxKeywordLen) :
        /\ Strip(kw) = kw
        /\ \E i \in 1..Len(kw) : IsWordChar(kw[i])}

InitSos ==
    /\ now = 0
    /\ sosSetting = None
    /\ sosCache = None
    /\ sosCacheTime = None
    /\ session = "none"
    /\ auditLog = <<>>
    /\ redis = <<>>
    /\ store = <<>>
    /\ bm25 = NoIndex
    /\ lastModel = None
    /\ chat = IdleChat
    /\ rq = IdleRq
    /\ hs = IdleHs
    /\ sk \in {[phase |-> "input", text |-> text, keywords |-> keywords,
                result |-> FALSE] :
                  text \in SeqsOf(Chars, 0, MaxSosTextLen),
                  keywords \in SeqsOf(SosKeywords, 0, MaxSosKeywords)}
    /\ AuxIdle

\* check_sos_keywords(text, keywords) is called on the arguments drawn
CheckSos ==
    /\ sk.phase = "input"
    /\ sk' = [sk EXCEPT !.phase = "done",
                        !.result = check_sos_keywords(sk.text, sk.keywords)]
    /\ UNCHANGED <<now, sosSetting, sosCache, sosCacheTime, session, auditLog,
                   redis, store, bm25, lastModel, chat, rq, hs, auxVars>>

NextSos == CheckSos

SpecSos == InitSos /\ [][NextSos]_vars

\* C4: for all keyword lists K and texts T, check_sos_keywords(T, K) is true
\* exactly when T contains some keyword of K as a whole word, compared
\* case-insensitively: bounded by non-word characters or by the start or end
\* of T.
C4_WholeWordMatch ==
    sk.phase = "done" => (sk.result <=> HasKeyword(sk.text, sk.keywords))

-----------------------------------------------------------------------------
(* Specification of rag_query and the Result Cache *)

MaxRagOps == 2

MaxRagTicks == 2

RagTickStep == 1800

RagQueries == { <<"a">>, <<"a", "a">> }

\* What goes wrong during one call of rag_query: nothing, or one capability
RagFaults ==
    {"none", "embedding", "cache_get", "cache_set", "connect", "get", "query",
     "sys_prompt", "generation", "first_model"}

\* BM25 score and cosine distance of each chunk text for the queries
RagQs == [x \in TextIds |-> IF x = "t1" THEN 1 ELSE 2]

RagQd == [x \in TextIds |-> IF x = "t1" THEN 0 ELSE 1]

RagInput(query, use_cache, fault, raw, v) ==
    [query |-> query, use_cache |-> use_cache,
     embedFails |-> fault = "embedding",
     getFails |-> fault = "cache_get",
     setFails |-> fault = "cache_set",
     storeFail |-> IF fault \in {"connect", "get", "query"} THEN fault ELSE "none",
     qs |-> RagQs, qd |-> RagQd, V |-> v,
     promptRaises |-> fault = "sys_prompt",
     modelOk |-> IF fault = "generation" THEN NoneOk
                 ELSE IF fault = "first_model"
                 THEN [m \in Models |-> m # CANDIDATE_MODELS[1]]
                 ELSE AllOk,
     raw |-> raw]

\* The sources lists a caller may hand to SemanticCache.set
CacheSources ==
    {<<>>, <<[title |-> "doc1.pdf", page |-> 0,
              content_snippet |-> Snippet([s |-> "t1", len |-> TextLen("t1")])]>>}

InitRag ==
    /\ now = 0
    /\ sosSetting = None
    /\ sosCache = None
    /\ sosCacheTime = None
    /\ session = "none"
    /\ auditLog = <<>>
    /\ redis = [k \in {generate_cache_key(Embedding(q)) : q \in RagQueries} |-> None]
    /\ store \in {StoreOf(<<>>),
                  StoreOf(<<[s |-> "t1", len |-> TextLen("t1")],
                            [s |-> "t2", len |-> TextLen("t2")]>>)}
    /\ bm25 = NoIndex
    /\ lastModel = None
    /\ chat = IdleChat
    /\ rq = IdleRq
    /\ hs = IdleHs
    /\ sk = IdleSk
    /\ AuxIdle

\* The record of a finished rag_query call
RagDone(query, use_cache, res) ==
    [op |-> "rag_query", prevOp |-> rq.op, seq |-> rq.seq + 1, time |-> now,
     query |-> query, use_cache |-> use_cache, response |-> res.response,
     sources |-> res.sources, calls |-> res.calls, hit |-> res.hit,
     context_empty |-> res.context_empty, stored |-> res.stored,
     failed |-> res.failed, raised |-> res.raised]

RagFinish(query, use_cache, res) ==
    /\ redis' = res.redis
    /\ bm25' = res.bm25
    /\ lastModel' = res.lastModel
    /\ rq' = RagDone(query, use_cache, res)

\* await rag_service.rag_query(query, use_cache=...)
RagQuery ==
    /\ rq.seq < MaxRagOps
    /\ \E query \in RagQueries, use_cache \in BOOLEAN, fault \in RagFaults,
          raw \in RawOutputs,
          v \in VectorAnswers(bm25, store, now, RagQd, RAG_SEARCH_TOP_K) :
          RagFinish(query, use_cache,
                    rag_query(redis, bm25, store, lastModel, now,
                              RagInput(query, use_cache, fault, raw, v)))
    /\ UNCHANGED <<now, sosSetting, sosCache, sosCacheTime, session, auditLog,
                   store, chat, hs, sk, auxVars>>

CacheOp(op, query, response, sources, hit, stored, fails) ==
    [IdleRq EXCEPT !.op = op, !.prevOp = rq.op, !.seq = rq.seq + 1, !.time = now,
                   !.query = query, !.response = response, !.sources = sources,
                   !.hit = hit, !.stored = stored,
                   !.failed = IF fails THEN {"redis"} ELSE {}]

\* await semantic_cache.set(embedding, response, sources)
CacheSet ==
    /\ rq.seq < MaxRagOps
    /\ \E query \in RagQueries, raw \in RawOutputs, sources \in CacheSources,
          fails \in BOOLEAN :
          LET res == SemanticCache_set(redis, now, Embedding(query), raw.text,
                                       sources, fails)
          IN /\ redis' = res.redis
             /\ rq' = CacheOp("set", query, raw.text, sources, FALSE, res.ok, fails)
    /\ UNCHANGED <<now, sosSetting, sosCache, sosCacheTime, session, auditLog,
                   store, bm25, lastModel, chat, hs, sk, auxVars>>

\* await semantic_cache.get(embedding)
CacheGet ==
    /\ rq.seq < MaxRagOps
    /\ \E query \in RagQueries, fails \in BOOLEAN :
          LET res == SemanticCache_get(redis, now, Embedding(query), fails)
          IN rq' = IF res # None
                   THEN CacheOp("get", query, res[1][1], res[1][2], TRUE, FALSE, fails)
                   ELSE CacheOp("get", query, "", <<>>, FALSE, FALSE, fails)
    /\ UNCHANGED <<now, sosSetting, sosCache, sosCacheTime, session, auditLog,
                   redis, store, bm25, lastModel, chat, hs, sk, auxVars>>

\* await semantic_cache.clear_all()
CacheClearAll ==
    /\ rq.seq < MaxRagOps
    /\ \E fails \in BOOLEAN :
          LET res == SemanticCache_clear_all(redis, now, fails)
          IN /\ redis' = res.redis
             /\ rq' = CacheOp("clear_all", <<>>, "", <<>>, FALSE, FALSE, fails)
    /\ UNCHANGED <<now, sosSetting, sosCache, sosCacheTime, session, auditLog,
                   store, bm25, lastModel, chat, hs, sk, auxVars>>

\* Time passes; expired Result Cache keys are gone
RagTick ==
    /\ now + RagTickStep <= MaxRagTicks * RagTickStep
    /\ now' = now + RagTickStep
    /\ redis' = RedisExpire(redis, now')
    /\ UNCHANGED <<sosSetting, sosCache, sosCacheTime, session, auditLog, store,
                   bm25, lastModel, chat, rq, hs, sk, auxVars>>

NextRag == RagQuery \/ CacheSet \/ CacheGet \/ CacheClearAll \/ RagTick

SpecRag == InitRag /\ [][NextRag]_vars

-----------------------------------------------------------------------------
(* Properties of rag_query and the Result Cache *)

\* A step that is the next operation after the one rq records
NextOp(op) == rq'.seq = rq.seq + 1 /\ rq'.op = op

\* rag_query stored a result for a query with the cache on, and the next
\* operation is rag_query on a query with the same embedding, with the cache
\* on, before the entry's time to live has run out
C5_RepeatedQuery ==
    /\ rq.op = "rag_query" /\ rq.use_cache /\ rq.stored
    /\ NextOp("rag_query") /\ rq'.use_cache
    /\ Embedding(rq'.query) = Embedding(rq.query)
    /\ "embedding" \notin rq'.failed
    /\ rq'.time < rq.time + CACHE_TTL

C5_ServedFromCache ==
    /\ rq'.response = rq.response
    /\ rq'.sources = rq.sources
    /\ rq'.calls.store = 0
    /\ rq'.calls.gen = 0

\* C5 as stated: if rag_query with use_cache stored a result for embedding e,
\* a second rag_query on the same e within the TTL, with no clear_all in
\* between, returns the identical (response, sources) pair with no Document
\* Store query and no generation call.
C5_AsStated == [][C5_RepeatedQuery => C5_ServedFromCache]_vars

\* C5, amended: the same, provided the second call's read of the Result
\* Cache succeeds (a failed read is taken for a miss and the pipeline runs).
C5_CacheHitSkipsPipeline ==
    [][(C5_RepeatedQuery /\ "cache_get" \notin rq'.failed) => C5_ServedFromCache]_vars

\* The second of two rag_query calls on one query, at a later time within the
\* TTL, was served from the cache.
C5_Witness ==
    /\ rq.op = "rag_query" /\ rq.prevOp = "rag_query" /\ rq.seq = 2
    /\ rq.hit /\ rq.time > 0 /\ rq.sources # <<>>
    /\ rq.calls.store = 0 /\ rq.calls.gen = 0

\* C6: when retrieval yields an empty context, rag_query returns the fixed
\* "insufficient knowledge" message with an empty sources list, calls no
\* generation model and writes nothing to the Result Cache, whatever
\* use_cache is.
C6_EmptyContextNotCached ==
    [][(NextOp("rag_query") /\ rq'.context_empty) =>
          /\ rq'.response = NO_CONTEXT_MESSAGE
          /\ rq'.sources = <<>>
          /\ rq'.calls.gen = 0
          /\ rq'.calls.cache_set = 0
          /\ ~rq'.stored
          /\ redis' = redis]_vars

\* A call with the cache on found no context and returned the fixed message.
C6_Witness ==
    /\ rq.op = "rag_query" /\ rq.context_empty /\ rq.use_cache
    /\ rq.response = NO_CONTEXT_MESSAGE
    /\ rq.failed = {}

\* C7: rag_query raises nothing, and whenever a step fails the value returned
\* is a fixed apology with an empty sources list.  Stated of the calls in
\* which generation failed on every candidate model.
C7_FailureGivesApologyAndNoSources ==
    (rq.op = "rag_query" /\ "generation" \in rq.failed) =>
        /\ ~rq.raised
        /\ rq.response \in {APOLOGY_PIPELINE, APOLOGY_GENERATION}
        /\ rq.sources = <<>>

\* set returned for (e, r, s) and the next operation is get(e) within the TTL
C8_SetThenGet ==
    /\ rq.op = "set" /\ NextOp("get")
    /\ Embedding(rq'.query) = Embedding(rq.query)
    /\ rq'.time < rq.time + CACHE_TTL

C8_GetReturnsPair ==
    rq'.hit /\ rq'.response = rq.response /\ rq'.sources = rq.sources

\* two consecutive set calls on one embedding
C8_SetThenSet ==
    /\ rq.op = "set" /\ NextOp("set")
    /\ Embedding(rq'.query) = Embedding(rq.query)

\* the keyspace holds, under the key of the embedding, the later value and
\* no new key
C8_LaterValueHeld ==
    /\ DOMAIN redis' = DOMAIN redis
    /\ SemanticCache_get(redis', now', Embedding(rq'.query), FALSE)
          = Some(<<rq'.response, rq'.sources>>)

\* C8 as stated: set(e, r, s) followed by get(e) within the TTL returns
\* exactly (r, s); two set calls on one embedding leave one entry holding
\* the later value.
C8_AsStated ==
    [][/\ C8_SetThenGet => C8_GetReturnsPair
       /\ C8_SetThenSet => C8_LaterValueHeld]_vars

\* C8, amended: the same for a set that returned True followed by a get whose
\* read succeeds, and for a later set that returned True (a failed write is
\* swallowed and stores nothing, a failed read is taken for a miss).
C8_RoundTrip ==
    [][/\ (C8_SetThenGet /\ rq.stored /\ rq'.failed = {}) => C8_GetReturnsPair
       /\ (C8_SetThenSet /\ rq'.stored) => C8_LaterValueHeld]_vars

\* A get at a later time within the TTL returned the pair with its source
\* that the set before it had stored.
C8_Witness ==
    /\ rq.op = "get" /\ rq.prevOp = "set" /\ rq.seq = 2
    /\ rq.hit /\ rq.time > 0 /\ rq.sources # <<>>

-----------------------------------------------------------------------------
(* Specification of hybrid_search as a function of its arguments *)

MaxChunks == 3

MaxTopK == 2

StoreFails == {"none", "connect", "get", "query"}

\* The index cache a search at time 0 leaves behind for the store
WarmIndex(st) == get_bm25_index(NoIndex, st, 0).bm25

InitHybrid ==
    /\ now = 0
    /\ sosSetting = None
    /\ sosCache = None
    /\ sosCacheTime = None
    /\ session = "none"
    /\ auditLog = <<>>
    /\ redis = <<>>
    /\ store \in {StoreOf(texts) : texts \in SeqsOf(Texts, 1, MaxChunks)}
    /\ bm25 \in {NoIndex, WarmIndex(store)}
    /\ lastModel = None
    /\ chat = IdleChat
    /\ rq = IdleRq
    /\ hs \in {[IdleHs EXCEPT !.phase = "input", !.qs = qs, !.qd = qd] :
                  qs \in [TextIds -> Bm25Scores], qd \in [TextIds -> Distances]}
    /\ sk = IdleSk
    /\ AuxIdle

HsFinish(top_k, alpha, V, fail, res) ==
    /\ bm25' = res.bm25
    /\ hs' = [hs EXCEPT !.phase = "done", !.top_k = top_k, !.alpha = alpha,
                        !.V = V, !.fail = fail,
                        !.corpus = store,
                        !.results = res.results]

\* rag_service.hybrid_search(query, top_k, alpha) on the scores drawn
HybridSearch ==
    /\ hs.phase = "input"
    /\ \E top_k \in 1..MaxTopK, alpha \in Alphas, fail \in StoreFails :
       \E V \in VectorAnswers(bm25, store, now, hs.qd, top_k) :
          HsFinish(top_k, alpha, V, fail,
                   hybrid_search(bm25, store, now, hs.qs, hs.qd, V, alpha, top_k,
                                 fail))
    /\ UNCHANGED <<now, sosSetting, sosCache, sosCacheTime, session, auditLog,
                   redis, store, lastModel, chat, rq, sk, auxVars>>

NextHybrid == HybridSearch

SpecHybrid == InitHybrid /\ [][NextHybrid]_vars

-----------------------------------------------------------------------------
(* Properties of hybrid_search *)

\* Normalised lexical score of chunk i, in halves: its BM25 score over the
\* largest score of the corpus when that is positive
LexicalNorm(i) ==
    LET m == MaxOf([j \in 1..Len(hs.corpus) |-> hs.qs[hs.corpus[j].text.s]])
    IN IF m > 0 THEN (2 * hs.qs[hs.corpus[i].text.s]) \div m
       ELSE 2 * hs.qs[hs.corpus[i].text.s]

\* Vector similarity of chunk i, in halves: 1 - distance/2 for a chunk of the
\* vector result set, 0 for a chunk absent from it
VectorSim(i) == IF i \in hs.V THEN 2 - hs.qd[hs.corpus[i].text.s] ELSE 0

\* fused = alpha * vector_similarity + (1 - alpha) * lexical, in quarters
Fused(i) == hs.alpha * VectorSim(i) + (2 - hs.alpha) * LexicalNorm(i)

\* The ways to pick the returned chunks: k distinct positions of the corpus
Picks(k) ==
    {idx \in [1..k -> 1..Len(hs.corpus)] :
        \A a, b \in 1..k : a # b => idx[a] # idx[b]}

\* C9: for a non-empty corpus hybrid_search gives every chunk the score
\* alpha * vector_similarity + (1 - alpha) * normalised lexical score, with
\* vector similarity 0 for the chunks absent from the vector result set of
\* size min(2 * top_k, |corpus|), and returns min(top_k, |corpus|) chunks in
\* non-increasing order of that score, none omitted with a higher score than
\* one returned, each with distance 1 - fused.
C9_FusedScores ==
    (hs.phase = "done" /\ hs.fail = "none") =>
        /\ Cardinality(hs.V) = Min(2 * hs.top_k, Len(hs.corpus))
        /\ Len(hs.results) = Min(hs.top_k, Len(hs.corpus))
        /\ \E idx \in Picks(Len(hs.results)) :
              /\ \A j \in 1..Len(hs.results) :
                    /\ hs.results[j].content = hs.corpus[idx[j]].text
                    /\ hs.results[j].source = hs.corpus[idx[j]].meta.source
                    /\ hs.results[j].page = hs.corpus[idx[j]].meta.page
                    /\ hs.results[j].score = Fused(idx[j])
                    /\ hs.results[j].distance = 4 - Fused(idx[j])
              /\ \A j \in 1..(Len(hs.results) - 1) :
                    Fused(idx[j]) >= Fused(idx[j + 1])
              /\ \A i \in 1..Len(hs.corpus) : \A j \in 1..Len(hs.results) :
                    (\A a \in 1..Len(hs.results) : idx[a] # i) =>
                        Fused(i) <= Fused(idx[j])

\* BM25 score and cosine distance of a returned chunk
ResultBm25(j) == hs.qs[hs.results[j].content.s]

ResultDistance(j) == hs.qd[hs.results[j].content.s]

InVectorSet(j) == \E i \in hs.V : hs.corpus[i].text = hs.results[j].content

\* C10: with alpha = 0 the chunks come back in the order of their BM25 score
\* alone, whatever the vector distances; with alpha = 1 the chunks of the
\* vector candidate set come back in the order of their similarity alone,
\* whatever the BM25 scores.
C10_FusionBoundary ==
    (hs.phase = "done" /\ hs.fail = "none") =>
        /\ hs.alpha = 0 =>
              /\ Len(hs.results) = Min(hs.top_k, Len(hs.corpus))
              /\ \A j \in 1..(Len(hs.results) - 1) : ResultBm25(j) >= ResultBm25(j + 1)
              /\ \A i \in 1..Len(hs.corpus) :
                    hs.qs[hs.corpus[i].text.s] > ResultBm25(Len(hs.results)) =>
                        \E j \in 1..Len(hs.results) : hs.results[j].content = hs.corpus[i].text
        /\ hs.alpha = 2 =>
              \A j, k \in 1..Len(hs.results) :
                  (j < k /\ InVectorSet(j) /\ InVectorSet(k)) =>
                      ResultDistance(j) <= ResultDistance(k)

\* With alpha = 0 two chunks of the vector set came back in BM25 order
\* although the vector order is the opposite.
C10_Witness ==
    /\ hs.phase = "done" /\ hs.fail = "none" /\ hs.alpha = 0
    /\ Len(hs.results) = 2
    /\ InVectorSet(1) /\ InVectorSet(2)
    /\ ResultBm25(1) > ResultBm25(2)
    /\ ResultDistance(1) > ResultDistance(2)

-----------------------------------------------------------------------------
(* Knowledge-base administration: src/api/v1/admin/knowledge.py,            *)
(* src/scripts/ingest.py, src/core/vector_store.py                          *)

\* Metadata ingest_pdf gives chunk number i (from 0) of a file: the page is
\* min(i // 2, num_pages), which is i // 2 for the files modelled
IngestMeta(filename, i) == [source |-> filename, page |-> i \div 2, chunk_index |-> i]

\* collection.upsert of one chunk: a chunk with the same id is replaced where
\* it stands, a new id is added at the end
UpsertOne(st, c) ==
    IF \E i \in 1..Len(st) : ChunkId(st[i].meta) = ChunkId(c.meta)
    THEN [i \in 1..Len(st) |->
             IF ChunkId(st[i].meta) = ChunkId(c.meta) THEN c ELSE st[i]]
    ELSE Append(st, c)

RECURSIVE Upsert(_, _)
Upsert(st, batch) ==
    IF batch = <<>> THEN st ELSE Upsert(UpsertOne(st, Head(batch)), Tail(batch))

\* The positions (from 1) of the chunks whose embedding was generated
EmbeddedPositions(chunks, embedOk) ==
    SelectSeq([i \in 1..Len(chunks) |-> i], LAMBDA i : embedOk[i])

\* ingest.ingest_pdf for a file of at most ten chunks (one batch): ids and
\* metadata of the chunks whose embedding was generated, documents
\* batch_chunks[:len(batch_ids)] (line 165); a failed upsert adds nothing and
\* every failure is swallowed.
ingest_pdf(st, filename, chunks, embedOk, upsertFails) ==
    IF chunks = <<>> \/ EmbeddedPositions(chunks, embedOk) = <<>> \/ upsertFails
    THEN [store |-> st, count |-> 0]
    ELSE [store |-> Upsert(st,
                      [n \in 1..Len(EmbeddedPositions(chunks, embedOk)) |->
                          [text |-> chunks[n],
                           meta |-> IngestMeta(filename,
                                      EmbeddedPositions(chunks, embedOk)[n] - 1)]]),
          count |-> Len(EmbeddedPositions(chunks, embedOk))]

\* vector_store.delete_document: every chunk whose source is the file goes
delete_document(st, filename) == SelectSeq(st, LAMBDA c : c.meta.source # filename)

\* vector_store.reset_collection: the collection is deleted and recreated
reset_collection(st) == <<>>

\* What an admin operation leaves behind
KbOutcome(st, b, r, fs, status) ==
    [store |-> st, bm25 |-> b, redis |-> r, files |-> fs, status |-> status]

\* upload_pdf: the file is saved, its chunks ingested, the lexical index
\* invalidated (lines 59-83); a failure to reach the store gives 500 after
\* the file was saved.
upload_pdf(st, b, r, fs, filename, chunks, embedOk, fail) ==
    IF fail = "connect"
    THEN KbOutcome(st, b, r, fs \cup {filename}, "error")
    ELSE KbOutcome(ingest_pdf(st, filename, chunks, embedOk, fail = "upsert").store,
                   invalidate_bm25_cache(b), r, fs \cup {filename}, "ok")

\* delete_knowledge_file (lines 306-350)
delete_knowledge_file(st, b, r, t, fs, filename, fail, redisFails) ==
    IF filename \notin fs
    THEN KbOutcome(st, b, r, fs, "not_found")
    ELSE IF fail # "none"
    THEN KbOutcome(st, b, r, fs, "error")
    ELSE KbOutcome(delete_document(st, filename), invalidate_bm25_cache(b),
                   SemanticCache_clear_all(r, t, redisFails).redis,
                   fs \ {filename}, "ok")

\* reset_knowledge_base (lines 165-193)
reset_knowledge_base(st, b, r, t, fs, fail, redisFails) ==
    IF fail # "none"
    THEN KbOutcome(st, b, r, fs, "error")
    ELSE KbOutcome(reset_collection(st), b,
                   SemanticCache_clear_all(r, t, redisFails).redis, fs, "ok")

\* The sources purge_orphan_data finds in the store without a file (line 240)
Orphans(st, fs) == {st[i].meta.source : i \in 1..Len(st)} \ fs

\* purge_orphan_data (lines 209-276)
purge_orphan_data(st, b, r, t, fs, fail, redisFails) ==
    IF fail # "none"
    THEN KbOutcome(st, b, r, fs, "error")
    ELSE IF st = <<>> \/ Orphans(st, fs) = {}
    THEN KbOutcome(st, b, r, fs, "ok")
    ELSE KbOutcome(SelectSeq(st, LAMBDA c : c.meta.source \notin Orphans(st, fs)), b,
                   SemanticCache_clear_all(r, t, redisFails).redis, fs, "ok")

-----------------------------------------------------------------------------
(* Specification of knowledge-base administration with searches in between *)

MaxKbOps == 3

MaxKbTime == 300

KbTickStep == 300

KbFiles == {"f1.pdf", "f2.pdf"}

T1 == [s |-> "t1", len |-> TextLen("t1")]

T2 == [s |-> "t2", len |-> TextLen("t2")]

\* The chunk lists an uploaded file splits into
KbChunkLists == { <<T2>>, <<T1, T2>> }

\* Embedding generation during ingestion: every chunk embedded, or the first
\* one failing
KbEmbedOks == {[i \in 1..2 |-> TRUE], [i \in 1..2 |-> i # 1]}

\* BM25 score and cosine distance of each chunk text for the search: the
\* query's keyword occurs in t2 only
KbQs == [x \in TextIds |-> IF x = "t2" THEN 1 ELSE 0]

KbQd == [x \in TextIds |-> IF x = "t2" THEN 1 ELSE 0]

KbQuery == <<"a">>

\* f1.pdf was ingested earlier; its file is in ./data or was removed by hand
InitKb ==
    /\ now = 0
    /\ sosSetting = None
    /\ sosCache = None
    /\ sosCacheTime = None
    /\ session = "none"
    /\ auditLog = <<>>
    /\ redis = [k \in {generate_cache_key(Embedding(KbQuery))} |-> None]
    /\ store = ingest_pdf(<<>>, "f1.pdf", <<T1>>, [i \in 1..2 |-> TRUE], FALSE).store
    /\ bm25 = NoIndex
    /\ lastModel = None
    /\ chat = IdleChat
    /\ rq = IdleRq
    /\ hs = IdleHs
    /\ sk = IdleSk
    /\ files \in {{"f1.pdf"}, {}}
    /\ kb = IdleKb
    /\ gn = IdleGn
    /\ chroma = NoChroma
    /\ cc = IdleCc
    /\ es = IdleEs
    /\ asm = IdleAsm
    /\ pr = IdlePr
    /\ cfg = IdleCfg

\* An admin operation finished with outcome res
KbAdminFinish(op, fail, redisFails, res) ==
    /\ store' = res.store
    /\ bm25' = res.bm25
    /\ redis' = res.redis
    /\ files' = res.files
    /\ kb' = [IdleKb EXCEPT !.op = op, !.seq = kb.seq + 1, !.status = res.status,
                            !.fail = fail, !.redis_failed = redisFails]
    /\ UNCHANGED <<now, sosSetting, sosCache, sosCacheTime, session, auditLog,
                   lastModel, chat, rq, hs, sk, gn, chroma, cc, es, asm, pr, cfg>>

\* POST /admin/knowledge/upload
UploadPdf ==
    /\ kb.seq < MaxKbOps
    /\ \E filename \in KbFiles, chunks \in KbChunkLists, embedOk \in KbEmbedOks,
          fail \in {"none", "connect", "upsert"} :
          KbAdminFinish("upload_pdf", fail, FALSE,
              upload_pdf(store, bm25, redis, files, filename, chunks, embedOk, fail))

\* DELETE /admin/knowledge/{filename}
DeleteKnowledgeFile ==
    /\ kb.seq < MaxKbOps
    /\ \E filename \in KbFiles, fail \in {"none", "connect"}, redisFails \in BOOLEAN :
          KbAdminFinish("delete_knowledge_file", fail, redisFails,
              delete_knowledge_file(store, bm25, redis, now, files, filename, fail,
                                    redisFails))

\* DELETE /admin/knowledge/reset-all
ResetKnowledgeBase ==
    /\ kb.seq < MaxKbOps
    /\ \E fail \in {"none", "connect"}, redisFails \in BOOLEAN :
          KbAdminFinish("reset_knowledge_base", fail, redisFails,
              reset_knowledge_base(store, bm25, redis, now, files, fail, redisFails))

\* DELETE /admin/knowledge/purge-orphans
PurgeOrphanData ==
    /\ kb.seq < MaxKbOps
    /\ \E fail \in {"none", "connect"}, redisFails \in BOOLEAN :
          KbAdminFinish("purge_orphan_data", fail, redisFails,
              purge_orphan_data(store, bm25, redis, now, files, fail, redisFails))

KbSearchFinish(top_k, alpha, fail, g, res) ==
    /\ bm25' = res.bm25
    /\ kb' = [IdleKb EXCEPT !.op = "search", !.seq = kb.seq + 1,
                            !.status = IF res.failed THEN "error" ELSE "ok",
                            !.fail = fail, !.top_k = top_k, !.alpha = alpha,
                            !.fetched = (fail # "connect" /\ g.fetched),
                            !.documents = g.documents, !.metadatas = g.metadatas,
                            !.results = res.results]

\* rag_service.hybrid_search(query, top_k, alpha) between admin operations
KbSearch ==
    /\ kb.seq < MaxKbOps
    /\ \E top_k \in 1..MaxTopK, alpha \in Alphas, fail \in StoreFails :
       \E V \in VectorAnswers(bm25, store, now, KbQd, top_k) :
          KbSearchFinish(top_k, alpha, fail, get_bm25_index(bm25, store, now),
              hybrid_search(bm25, store, now, KbQs, KbQd, V, alpha, top_k, fail))
    /\ UNCHANGED <<now, sosSetting, sosCache, sosCacheTime, session, auditLog,
                   redis, store, lastModel, chat, rq, hs, sk, files, gn, chroma,
                   cc, es, asm, pr, cfg>>

KbRagFinish(res) ==
    /\ redis' = res.redis
    /\ bm25' = res.bm25
    /\ lastModel' = res.lastModel
    /\ kb' = [IdleKb EXCEPT !.op = "rag_query", !.seq = kb.seq + 1, !.status = "ok",
                            !.response = res.response, !.sources = res.sources,
                            !.hit = res.hit]

\* await rag_service.rag_query(query) between admin operations
KbRagQuery ==
    /\ kb.seq < MaxKbOps
    /\ \E v \in VectorAnswers(bm25, store, now, RagQd, RAG_SEARCH_TOP_K) :
          KbRagFinish(rag_query(redis, bm25, store, lastModel, now,
                        RagInput(KbQuery, TRUE, "none",
                                 [text |-> "r1", tags |-> FALSE], v)))
    /\ UNCHANGED <<now, sosSetting, sosCache, sosCacheTime, session, auditLog,
                   store, chat, rq, hs, sk, files, gn, chroma, cc, es, asm, pr, cfg>>

\* python -m src.scripts.ingest (ingest_directory) run beside the server: the
\* chunks of a file of ./data are upserted by another process, whose own
\* RAGService is not the server's
IngestDirectory ==
    /\ kb.seq < MaxKbOps
    /\ \E filename \in files, chunks \in KbChunkLists :
          /\ store' = ingest_pdf(store, filename, chunks, [i \in 1..2 |-> TRUE],
                                 FALSE).store
          /\ kb' = [IdleKb EXCEPT !.op = "ingest_directory", !.seq = kb.seq + 1,
                                  !.status = "ok"]
    /\ UNCHANGED <<now, sosSetting, sosCache, sosCacheTime, session, auditLog,
                   redis, bm25, lastModel, chat, rq, hs, sk, files, gn, chroma, cc,
                   es, asm, pr, cfg>>

\* Time passes
KbTick ==
    /\ now + KbTickStep <= MaxKbTime
    /\ now' = now + KbTickStep
    /\ redis' = RedisExpire(redis, now')
    /\ UNCHANGED <<sosSetting, sosCache, sosCacheTime, session, auditLog, store,
                   bm25, lastModel, chat, rq, hs, sk, auxVars>>

NextKb ==
    \/ UploadPdf
    \/ DeleteKnowledgeFile
    \/ ResetKnowledgeBase
    \/ PurgeOrphanData
    \/ IngestDirectory
    \/ KbSearch
    \/ KbRagQuery
    \/ KbTick

SpecKb == InitKb /\ [][NextKb]_vars

-----------------------------------------------------------------------------
(* Properties of the lexical index and of knowledge-base administration *)

\* A step that is the next knowledge-base operation, of kind op
KbStep(op) == kb'.seq = kb.seq + 1 /\ kb'.op = op

\* C11: hybrid_search never raises; on an empty Document Store it returns the
\* empty list, and when a Document Store operation fails (connecting,
\* fetching the corpus, the vector query) it returns the empty list and
\* leaves the cached lexical index as it was before the call.
C11_SearchFailsToEmptyList ==
    [][KbStep("search") =>
          /\ store = <<>> => kb'.results = <<>>
          /\ kb'.status = "error" => (kb'.results = <<>> /\ bm25' = bm25)]_vars

\* The index cache holds an index, and its age
IndexCached == bm25.cache # None

IndexAge == now - bm25.cache_time[1]

\* Chunk i of the store is among the results the search returned
Returned(i) ==
    \E j \in 1..Len(kb'.results) :
        /\ kb'.results[j].content = store[i].text
        /\ kb'.results[j].source = store[i].meta.source
        /\ kb'.results[j].page = store[i].meta.page

\* Chunk i of the store is not in the cached corpus: no cached chunk has its
\* text, source and page, which is all a result shows of a chunk
NotIndexed(i) ==
    \A j \in 1..Len(bm25.corpus[1]) :
        \/ bm25.corpus[1][j] # store[i].text
        \/ bm25.metadatas[1][j].source # store[i].meta.source
        \/ bm25.metadatas[1][j].page # store[i].meta.page

\* C12: the lexical index getter refetches the corpus and rebuilds if and
\* only if no index is cached or the cached one is at least 300 s old;
\* otherwise it returns the cached index, documents and metadatas and does
\* not touch the Document Store.  So a lexical-only search (alpha = 0) made
\* after an invalidation ranks the chunks of the store as it is now, and one
\* made on a cached index younger than 300 s returns no chunk added since.
C12_IndexRebuiltIffStale ==
    [][(KbStep("search") /\ kb'.fail # "connect") =>
          /\ kb'.fetched <=> (~IndexCached \/ IndexAge >= 300)
          /\ ~kb'.fetched =>
                /\ bm25' = bm25
                /\ kb'.documents = bm25.corpus[1]
                /\ kb'.metadatas = bm25.metadatas[1]
          /\ (kb'.alpha = 0 /\ kb'.status = "ok") =>
                \A i \in 1..Len(store) :
                    /\ (~kb'.fetched /\ NotIndexed(i)) => ~Returned(i)
                    /\ kb'.fetched =>
                          \/ Returned(i)
                          \/ \A j \in 1..Len(kb'.results) :
                                KbQs[store[i].text.s] <= KbQs[kb'.results[j].content.s]]_vars

\* A lexical-only search served from the cached index although the store
\* has a chunk the index does not know
C12_Witness ==
    /\ kb.op = "search" /\ kb.status = "ok" /\ kb.alpha = 0 /\ ~kb.fetched
    /\ kb.results # <<>>
    /\ bm25.cache # None
    /\ \E i \in 1..Len(store) : \A j \in 1..Len(kb.documents) :
          \/ kb.documents[j] # store[i].text
          \/ kb.metadatas[j].source # store[i].meta.source
          \/ kb.metadatas[j].page # store[i].meta.page

AdminOps ==
    {"upload_pdf", "delete_knowledge_file", "reset_knowledge_base", "purge_orphan_data"}

\* The documents and metadatas of the store as collection.get delivers them
StoreDocuments == [i \in 1..Len(store) |-> store[i].text]

StoreMetadatas == [i \in 1..Len(store) |-> store[i].meta]

\* C13: every admin operation that adds or deletes chunks (upload_pdf,
\* delete_knowledge_file, reset_knowledge_base, purge_orphan_data) has
\* invalidated the lexical index when it returns, so a search that starts
\* after it is scored against the store as the operation left it.
C13_MutationInvalidatesIndex ==
    [][/\ (kb'.seq = kb.seq + 1 /\ kb'.op \in AdminOps /\ store' # store) =>
              bm25' = NoIndex
       /\ (KbStep("search") /\ kb.op \in AdminOps /\ kb'.status = "ok") =>
              /\ kb'.documents = StoreDocuments
              /\ kb'.metadatas = StoreMetadatas]_vars

\* C14: every operation that changes the corpus, by ingestion (upload_pdf) or
\* by deletion (delete_knowledge_file, reset_knowledge_base,
\* purge_orphan_data), has called SemanticCache.clear_all when it returns:
\* with Redis reachable, no Result Cache entry written before the change is
\* left to be served.
C14_CorpusChangeClearsCache ==
    [][(/\ kb'.seq = kb.seq + 1 /\ kb'.op \in AdminOps
        /\ store' # store /\ ~kb'.redis_failed) =>
           \A k \in DOMAIN redis' : RedisGet(redis', now, k) = None]_vars


\* C30: after ingest_pdf every chunk it stored is self-consistent: the text
\* stored under a chunk id is the text of the chunk at that id's chunk_index,
\* the one its embedding and metadata were computed from, for every pattern
\* of embedding failures inside the batch (no text shifts to a later id).
C30_StoredChunkSelfConsistent ==
    [][\A filename \in KbFiles, chunks \in KbChunkLists, embedOk \in KbEmbedOks :
          (/\ kb'.op = "upload_pdf" /\ kb'.seq = kb.seq + 1
           /\ kb'.status = "ok" /\ kb'.fail = "none"
           /\ store' # store
           /\ store' = ingest_pdf(store, filename, chunks, embedOk, FALSE).store)
          => \A i \in 1..Len(store') :
                (/\ store'[i].meta.source = filename
                 /\ (i > Len(store) \/ store'[i] # store[i]))
                => /\ store'[i].meta.chunk_index + 1 <= Len(chunks)
                   /\ embedOk[store'[i].meta.chunk_index + 1]
                   /\ store'[i].text = chunks[store'[i].meta.chunk_index + 1]]_vars

-----------------------------------------------------------------------------
(* The response generator called on its own: rag_service.py lines 366-590 *)

\* A faulty variant of the call: what goes wrong is not caught
generate_response_uncaught(last, modelOk, raw, promptRaises) ==
    [text |-> IF promptRaises \/ \A m \in Models : ~modelOk[m]
              THEN "" ELSE generate_response(last, modelOk, raw).text,
     lastModel |-> generate_response(last, modelOk, raw).lastModel,
     tried |-> IF promptRaises THEN <<>> ELSE generate_response(last, modelOk, raw).tried,
     ok |-> ~promptRaises /\ generate_response(last, modelOk, raw).ok,
     raised |-> promptRaises \/ \A m \in Models : ~modelOk[m]]

\* RAGService.generate_response as a call: building the prompt may raise
\* (promptRaises), which the outer except turns into the apology (lines
\* 477-479); otherwise the candidate loop runs.  raised: an exception left
\* the call.
generate_response_call(last, modelOk, raw, promptRaises) ==
    IF promptRaises
    THEN [text |-> APOLOGY_GENERATION, lastModel |-> last, tried |-> <<>>,
          ok |-> FALSE, raised |-> FALSE]
    ELSE [text |-> generate_response(last, modelOk, raw).text,
          lastModel |-> generate_response(last, modelOk, raw).lastModel,
          tried |-> generate_response(last, modelOk, raw).tried,
          ok |-> generate_response(last, modelOk, raw).ok,
          raised |-> FALSE]

\* The chunks the fragments come from: those with text (line 579)
TextChunks(chunks) == SelectSeq(chunks, LAMBDA c : c # "")

\* The stream of generate_response_stream once model number first answered:
\* breakAt chunks arrive before the connection breaks (all of them when
\* breakAt exceeds their number); a break ends the stream with the apology
\* (lines 588-590).
stream_fragments(chunks, breakAt) ==
    IF breakAt < Len(chunks)
    THEN [fragments |-> Append(TextChunks(SubSeq(chunks, 1, breakAt)), APOLOGY_GENERATION),
          broke |-> TRUE]
    ELSE [fragments |-> TextChunks(chunks), broke |-> FALSE]

\* RAGService.generate_response_stream as a call, consumed to its end.
\* tried: the models called; fragments: what it yielded; raised: an exception
\* left the generator.
generate_response_stream_call(modelOk, chunks, breakAt, promptRaises) ==
    IF promptRaises
    THEN [fragments |-> <<APOLOGY_GENERATION>>, tried |-> <<>>, ok |-> FALSE,
          broke |-> FALSE, raised |-> FALSE]
    ELSE IF \A i \in 1..Len(STREAM_CANDIDATE_MODELS) : ~modelOk[STREAM_CANDIDATE_MODELS[i]]
    THEN [fragments |-> <<APOLOGY_GENERATION>>, tried |-> STREAM_CANDIDATE_MODELS,
          ok |-> FALSE, broke |-> FALSE, raised |-> FALSE]
    ELSE [fragments |-> stream_fragments(chunks, breakAt).fragments,
          tried |-> generate_response_stream(modelOk, <<>>).tried,
          ok |-> TRUE,
          broke |-> stream_fragments(chunks, breakAt).broke,
          raised |-> FALSE]

-----------------------------------------------------------------------------
(* Specification of the response generator *)

MaxGenCalls == 2

\* The chunk sequences a model streams: two texts, with or without an empty
\* chunk between them
StreamChunkLists == { <<"x1", "x2">>, <<"x1", "", "x2">> }

InitGen ==
    /\ now = 0
    /\ sosSetting = None
    /\ sosCache = None
    /\ sosCacheTime = None
    /\ session = "none"
    /\ auditLog = <<>>
    /\ redis = <<>>
    /\ store = <<>>
    /\ bm25 = NoIndex
    /\ lastModel = None
    /\ chat = IdleChat
    /\ rq = IdleRq
    /\ hs = IdleHs
    /\ sk = IdleSk
    /\ AuxIdle

\* The record of a finished generator call: prevLast is the last working
\* model when the call began
GenDone(op, modelOk, promptRaises, text, fragments, broke, res) ==
    [op |-> op, seq |-> gn.seq + 1, prevLast |-> lastModel, modelOk |-> modelOk,
     promptRaises |-> promptRaises, tried |-> res.tried, ok |-> res.ok,
     text |-> text, fragments |-> fragments, broke |-> broke,
     raised |-> res.raised]

GenDoneResponse(modelOk, promptRaises, res) ==
    /\ lastModel' = res.lastModel
    /\ gn' = GenDone("generate_response", modelOk, promptRaises, res.text, <<>>,
                     FALSE, res)

GenDoneStream(modelOk, promptRaises, res) ==
    /\ lastModel' = lastModel
    /\ gn' = GenDone("generate_response_stream", modelOk, promptRaises, "",
                     res.fragments, res.broke, res)

\* await rag_service.generate_response(query, context, chat_history, prompt)
GenerateResponse ==
    /\ gn.seq < MaxGenCalls
    /\ \E modelOk \in [Models -> BOOLEAN], raw \in RawOutputs, promptRaises \in BOOLEAN :
          GenDoneResponse(modelOk, promptRaises,
              generate_response_call(lastModel, modelOk, raw, promptRaises))
    /\ UNCHANGED <<now, sosSetting, sosCache, sosCacheTime, session, auditLog,
                   redis, store, bm25, chat, rq, hs, sk, files, kb, chroma, cc, es,
                   asm, pr, cfg>>

\* async for fragment in rag_service.generate_response_stream(...)
GenerateResponseStream ==
    /\ gn.seq < MaxGenCalls
    /\ \E modelOk \in [Models -> BOOLEAN], chunks \in StreamChunkLists,
          promptRaises \in BOOLEAN :
       \E breakAt \in 0..Len(chunks) :
          GenDoneStream(modelOk, promptRaises,
              generate_response_stream_call(modelOk, chunks, breakAt, promptRaises))
    /\ UNCHANGED <<now, sosSetting, sosCache, sosCacheTime, session, auditLog,
                   redis, store, bm25, chat, rq, hs, sk, files, kb, chroma, cc, es,
                   asm, pr, cfg>>

NextGen == GenerateResponse \/ GenerateResponseStream

SpecGen == InitGen /\ [][NextGen]_vars

-----------------------------------------------------------------------------
(* Properties of the response generator *)

\* The order the claim gives: the last successful model, then the remaining
\* models in their fixed priority order
ExpectedOrder(prev) ==
    IF prev = None THEN CANDIDATE_MODELS
    ELSE <<prev[1]>> \o SelectSeq(CANDIDATE_MODELS, LAMBDA m : m # prev[1])

\* C15: generate_response tries the candidate models one at a time, each at
\* most once, in the order [last successful model, the remaining models in
\* their fixed priority order], and returns the output of the first model
\* that succeeds; that model is remembered and is the first one tried on the
\* next call.
C15_ModelFallbackOrder ==
    (gn.op = "generate_response" /\ ~gn.promptRaises) =>
        /\ gn.tried = SubSeq(ExpectedOrder(gn.prevLast), 1, Len(gn.tried))
        /\ \A i, j \in 1..Len(gn.tried) : i # j => gn.tried[i] # gn.tried[j]
        /\ \A i \in 1..(Len(gn.tried) - 1) : ~gn.modelOk[gn.tried[i]]
        /\ gn.ok <=> \E m \in Models : gn.modelOk[m]
        /\ gn.ok =>
              /\ gn.modelOk[gn.tried[Len(gn.tried)]]
              /\ gn.text \in {r.text : r \in RawOutputs}
              /\ lastModel = Some(gn.tried[Len(gn.tried)])
        /\ ~gn.ok => (Len(gn.tried) = Len(CANDIDATE_MODELS) /\ lastModel = gn.prevLast)
        /\ gn.prevLast # None => gn.tried[1] = gn.prevLast[1]

\* The second model answered an earlier call after the first had failed, and
\* this call tried it first
C15_Witness ==
    /\ gn.op = "generate_response" /\ gn.seq = 2 /\ ~gn.promptRaises
    /\ gn.prevLast = Some(CANDIDATE_MODELS[2])
    /\ gn.tried = <<CANDIDATE_MODELS[2]>>
    /\ gn.ok

\* C16: if every candidate model fails, generate_response returns the fixed
\* apology and generate_response_stream yields the apology as its only
\* fragment and ends; whatever fails during a call, no exception leaves it.
C16_GenerationFailureGivesApology ==
    /\ ~gn.raised
    /\ (gn.op = "generate_response" /\ \A m \in Models : ~gn.modelOk[m]) =>
          gn.text = APOLOGY_GENERATION
    /\ (gn.op = "generate_response" /\ gn.promptRaises) => gn.text = APOLOGY_GENERATION
    /\ (gn.op = "generate_response_stream" /\ \A m \in Models : ~gn.modelOk[m]) =>
          gn.fragments = <<APOLOGY_GENERATION>>
    /\ (gn.op = "generate_response_stream" /\ ~gn.ok) =>
          gn.fragments = <<APOLOGY_GENERATION>>

\* Every model of the streaming generator was tried and failed
C16_Witness ==
    /\ gn.op = "generate_response_stream" /\ ~gn.promptRaises
    /\ \A m \in Models : ~gn.modelOk[m]
    /\ Len(gn.tried) = 3
    /\ gn.fragments = <<APOLOGY_GENERATION>>


\* C29: both generator variants keep the last-successful-model memory: after
\* a successful generation by generate_response or generate_response_stream
\* the model that answered is the recorded last working model, and a call of
\* either variant made while a model is recorded tries that model first.
C29_BothVariantsKeepLastModel ==
    (gn.op \in {"generate_response", "generate_response_stream"} /\ ~gn.promptRaises) =>
        /\ (gn.ok /\ ~gn.broke) => lastModel = Some(gn.tried[Len(gn.tried)])
        /\ gn.prevLast # None => (gn.tried # <<>> /\ gn.tried[1] = gn.prevLast[1])

-----------------------------------------------------------------------------
(* Specification of the reranker and the context assembler as functions *)

MaxCandidates == 3

MaxRerankTopK == 3

\* Chunk texts of 200 and of 201 characters
AsmContents == {[s |-> "t1", len |-> SNIPPET_LEN], [s |-> "t2", len |-> SNIPPET_LEN + 1]}

\* SearchResult objects: distance in quarters, score = 1 - distance
AsmResults ==
    {[content |-> c, source |-> "doc1.pdf", page |-> p, distance |-> d, score |-> 4 - d] :
        c \in AsmContents, p \in {0, 1}, d \in {1, 2}}

\* The store the searches of this specification run on
AsmStore == StoreOf(<<T1, T2, T1>>)

\* rerank_results as a call: what it returns, the list handed in as it is
\* afterwards (sorted() builds a new list), and whether it raised
rerank_results_call(results, top_k) ==
    [returned |-> rerank_results(results, top_k), results_after |-> results,
     raised |-> FALSE]

InitAsm ==
    /\ now = 0
    /\ sosSetting = None
    /\ sosCache = None
    /\ sosCacheTime = None
    /\ session = "none"
    /\ auditLog = <<>>
    /\ redis = <<>>
    /\ store = AsmStore
    /\ bm25 = NoIndex
    /\ lastModel = None
    /\ chat = IdleChat
    /\ rq = IdleRq
    /\ hs = IdleHs
    /\ sk = IdleSk
    /\ files = {}
    /\ kb = IdleKb
    /\ gn = IdleGn
    /\ chroma = NoChroma
    /\ cc = IdleCc
    /\ es = IdleEs
    /\ pr = IdlePr
    /\ cfg = IdleCfg
    /\ asm \in {[IdleAsm EXCEPT !.mode = "given", !.candidates = c] :
                   c \in SeqsOf(AsmResults, 0, MaxCandidates)}
               \cup {[IdleAsm EXCEPT !.mode = "search"]}

AsmReranked(op, candidates, top_k, res) ==
    asm' = [asm EXCEPT !.op = op, !.candidates = candidates, !.top_k = top_k,
                       !.returned = res.returned,
                       !.candidates_after = res.results_after,
                       !.raised = res.raised]

\* rag_service.rerank_results(query, candidates, top_k) on a list handed in
Rerank ==
    /\ asm.op = "none" /\ asm.mode = "given"
    /\ \E top_k \in 1..MaxRerankTopK :
          AsmReranked("rerank_results", asm.candidates, top_k,
                      rerank_results_call(asm.candidates, top_k))
    /\ UNCHANGED <<now, sosSetting, sosCache, sosCacheTime, session, auditLog,
                   redis, store, bm25, lastModel, chat, rq, hs, sk, files, kb, gn,
                   chroma, cc, es, pr, cfg>>

AsmSearched(top_k, results) ==
    AsmReranked("search_rerank", results, top_k, rerank_results_call(results, top_k))

\* rerank_results applied to what hybrid_search returned (rag_query lines
\* 632-635, for every search size, weight, score and distance)
SearchAndRerank ==
    /\ asm.op = "none" /\ asm.mode = "search"
    /\ \E search_k \in 1..MaxCandidates, top_k \in 1..MaxRerankTopK, alpha \in Alphas,
          qs \in [TextIds -> Bm25Scores], qd \in [TextIds -> Distances] :
       \E V \in VectorAnswers(NoIndex, store, now, qd, search_k) :
          AsmSearched(top_k,
              hybrid_search(NoIndex, store, now, qs, qd, V, alpha, search_k,
                            "none").results)
    /\ UNCHANGED <<now, sosSetting, sosCache, sosCacheTime, session, auditLog,
                   redis, store, bm25, lastModel, chat, rq, hs, sk, files, kb, gn,
                   chroma, cc, es, pr, cfg>>

AsmBuilt(built) ==
    asm' = [asm EXCEPT !.op = "build_context", !.context = built.context,
                       !.sources = built.sources]

\* rag_service.build_context(results)
BuildContext ==
    /\ asm.op = "none" /\ asm.mode = "given"
    /\ AsmBuilt(build_context(asm.candidates))
    /\ UNCHANGED <<now, sosSetting, sosCache, sosCacheTime, session, auditLog,
                   redis, store, bm25, lastModel, chat, rq, hs, sk, files, kb, gn,
                   chroma, cc, es, pr, cfg>>

NextAsm == Rerank \/ SearchAndRerank \/ BuildContext

SpecAsm == InitAsm /\ [][NextAsm]_vars

-----------------------------------------------------------------------------
(* Properties of the reranker and the context assembler *)

\* The ways to take k elements of the candidate list: k distinct positions
AsmPicks(k) ==
    {idx \in [1..k -> 1..Len(asm.candidates)] :
        \A a, b \in 1..k : a # b => idx[a] # idx[b]}

\* C17: rerank_results returns min(top_k, |candidates|) elements of the
\* candidates in non-decreasing order of distance, nothing that is not a
\* candidate, leaves the list handed in as it was and does not raise; on the
\* output of hybrid_search it returns the first top_k elements in their order.
C17_RerankKeepsOrder ==
    (asm.op \in {"rerank_results", "search_rerank"}) =>
        /\ ~asm.raised
        /\ asm.candidates_after = asm.candidates
        /\ Len(asm.returned) = Min(asm.top_k, Len(asm.candidates))
        /\ \A j \in 1..(Len(asm.returned) - 1) :
              asm.returned[j].distance <= asm.returned[j + 1].distance
        /\ \E idx \in AsmPicks(Len(asm.returned)) :
              \A j \in 1..Len(asm.returned) : asm.returned[j] = asm.candidates[idx[j]]
        /\ asm.op = "search_rerank" =>
              asm.returned = SubSeq(asm.candidates, 1, Len(asm.returned))

\* The search returned three chunks, two of them with the same fused score,
\* and the reranker cut them to two
C17_Witness ==
    /\ asm.op = "search_rerank"
    /\ Len(asm.candidates) = 3 /\ asm.top_k = 2
    /\ asm.candidates[1].distance = asm.candidates[2].distance
    /\ asm.candidates[1] # asm.candidates[2]
    /\ asm.returned = <<asm.candidates[1], asm.candidates[2]>>

\* C18: build_context returns a sources list parallel to its input: same
\* length and order, entry i with the source and page of result i, the
\* context block of result i numbered i from 1; the snippet is the whole text
\* when it has at most 200 characters, otherwise its first 200 characters and
\* an ellipsis; empty input gives the empty string and the empty list.
C18_SourcesParallelToResults ==
    asm.op = "build_context" =>
        /\ Len(asm.sources) = Len(asm.candidates)
        /\ Len(asm.context) = Len(asm.candidates)
        /\ \A i \in 1..Len(asm.candidates) :
              /\ asm.sources[i].title = asm.candidates[i].source
              /\ asm.sources[i].page = asm.candidates[i].page
              /\ asm.context[i].n = i
              /\ asm.context[i].content = asm.candidates[i].content
              /\ asm.context[i].source = asm.candidates[i].source
              /\ asm.context[i].page = asm.candidates[i].page
              /\ asm.sources[i].content_snippet.s = asm.candidates[i].content.s
              /\ asm.candidates[i].content.len <= 200 =>
                    /\ asm.sources[i].content_snippet.len = asm.candidates[i].content.len
                    /\ ~asm.sources[i].content_snippet.ellipsis
              /\ asm.candidates[i].content.len > 200 =>
                    /\ asm.sources[i].content_snippet.len = 200
                    /\ asm.sources[i].content_snippet.ellipsis
        /\ asm.candidates = <<>> => (asm.context = <<>> /\ asm.sources = <<>>)

\* A text of 200 characters kept whole beside one of 201 characters cut
C18_Witness ==
    /\ asm.op = "build_context"
    /\ Len(asm.candidates) = 2
    /\ asm.candidates[1].content.len = 200 /\ ~asm.sources[1].content_snippet.ellipsis
    /\ asm.candidates[2].content.len = 201 /\ asm.sources[2].content_snippet.ellipsis

-----------------------------------------------------------------------------
(* The streaming chat path step by step: chat_stream.py lines 78-167 *)

MaxStreamRequests == 2

\* A faulty variant of the end of the loop: it ends after the first fragment
stream_exhausted_early(consumed, fragments) == consumed >= Min(1, Len(fragments))

\* The async for of line 127 ends when the generation stream has no fragment
\* left
stream_exhausted(consumed, fragments) == consumed = Len(fragments)

InitStream ==
    /\ now = 0
    /\ sosSetting = None
    /\ sosCache = None
    /\ sosCacheTime = None
    /\ session = "conversation"
    /\ auditLog = <<>>
    /\ redis = <<>>
    /\ store = StoreOf(<<T1>>)
    /\ bm25 = NoIndex
    /\ lastModel = None
    /\ chat = IdleChat
    /\ rq = IdleRq
    /\ hs = IdleHs
    /\ sk = IdleSk
    /\ files = {}
    /\ kb = IdleKb
    /\ gn = IdleGn
    /\ chroma = NoChroma
    /\ cc = IdleCc
    /\ es = IdleEs
    /\ asm = IdleAsm
    /\ pr = IdlePr
    /\ cfg = IdleCfg

StreamUnchanged ==
    UNCHANGED <<now, sosSetting, sosCache, sosCacheTime, session, auditLog, redis,
                store, lastModel, chat, rq, hs, sk, files, kb, gn, chroma, cc,
                asm, pr, cfg>>

\* Lines 41-123 for a message without crisis keyword on a session with a
\* conversation: the user message is added and flushed, the context
\* retrieved, the sources event yielded.  A failing embedding call ends the
\* request with the error events (lines 160-167).
StreamOpened(embedFails, gen, search, built) ==
    /\ es' = IF embedFails
             THEN [es EXCEPT !.phase = "error", !.request = es.request + 1,
                             !.fragments = <<>>, !.consumed = 0,
                             !.full_response = <<>>,
                             !.sent = <<"error", "[DONE]">>,
                             !.pending = <<>>, !.context = <<>>, !.models = <<>>,
                             !.gen_calls = 0]
             ELSE [es EXCEPT !.phase = "streaming", !.request = es.request + 1,
                             !.fragments = gen.fragments, !.consumed = 0,
                             !.full_response = <<>>, !.sent = <<"sources">>,
                             !.pending = <<[role |-> "user",
                                            request |-> es.request + 1,
                                            content |-> <<"q">>]>>,
                             !.context = built.context, !.models = gen.tried,
                             !.gen_calls = 0]
    /\ bm25' = IF embedFails THEN bm25 ELSE search.bm25

\* Lines 109-112: hybrid search for ten, rerank to three, build the context
StreamSearched(embedFails, gen, search) ==
    StreamOpened(embedFails, gen, search,
                 build_context(rerank_results(search.results, RAG_TOP_K)))

StreamOpen ==
    /\ es.phase \in {"idle", "done", "error", "closed"}
    /\ es.request < MaxStreamRequests
    /\ \E embedFails \in BOOLEAN, modelOk \in {AllOk, NoneOk},
          chunks \in StreamChunkLists, storeFail \in {"none", "connect"},
          V \in VectorAnswers(bm25, store, now, KbQd, RAG_SEARCH_TOP_K) :
       \E breakAt \in 0..Len(chunks) :
          StreamSearched(embedFails,
              generate_response_stream_call(modelOk, chunks, breakAt, FALSE),
              hybrid_search(bm25, store, now, KbQs, KbQd, V, DEFAULT_ALPHA,
                            RAG_SEARCH_TOP_K, storeFail))
    /\ StreamUnchanged

\* Lines 126-138: the next fragment is pulled from the generation stream,
\* appended to full_response and yielded as a chunk event
StreamChunk ==
    /\ es.phase = "streaming"
    /\ ~stream_exhausted(es.consumed, es.fragments)
    /\ es' = [es EXCEPT !.consumed = es.consumed + 1,
                        !.full_response = Append(es.full_response,
                                                 es.fragments[es.consumed + 1]),
                        !.sent = Append(es.sent, "chunk"),
                        !.gen_calls = Len(es.models)]
    /\ UNCHANGED bm25
    /\ StreamUnchanged

\* Lines 140-158: after the loop the assistant message is added and the
\* session committed, then the done events are yielded; a failing commit
\* persists nothing and ends with the error events
StreamSave ==
    /\ es.phase = "streaming"
    /\ stream_exhausted(es.consumed, es.fragments)
    /\ \E commitFails \in BOOLEAN :
          es' = IF commitFails
                THEN [es EXCEPT !.phase = "error", !.pending = <<>>,
                                !.gen_calls = Len(es.models),
                                !.sent = es.sent \o <<"error", "[DONE]">>]
                ELSE [es EXCEPT !.phase = "done", !.pending = <<>>,
                                !.gen_calls = Len(es.models),
                                !.committed = es.committed \o es.pending \o
                                    <<[role |-> "assistant", request |-> es.request,
                                       content |-> es.full_response]>>,
                                !.sent = es.sent \o <<"done", "[DONE]">>]
    /\ UNCHANGED bm25
    /\ StreamUnchanged

\* The client disconnects while the generator is suspended at a yield: the
\* generator is closed there (GeneratorExit or CancelledError, which except
\* Exception does not catch), and the session dependency (database.py lines
\* 37-45) commits or discards the flushed user message
ClientDisconnect ==
    /\ es.phase = "streaming"
    /\ \E userKept \in BOOLEAN :
          es' = [es EXCEPT !.phase = "closed", !.pending = <<>>,
                           !.committed = IF userKept THEN es.committed \o es.pending
                                         ELSE es.committed]
    /\ UNCHANGED bm25
    /\ StreamUnchanged

NextStream == StreamOpen \/ StreamChunk \/ StreamSave \/ ClientDisconnect

SpecStream == InitStream /\ [][NextStream]_vars

-----------------------------------------------------------------------------
(* Properties of the streaming chat path *)

\* The assistant rows of the messages table written for request r
AssistantRows(e, r) ==
    {i \in 1..Len(e.committed) :
        e.committed[i].role = "assistant" /\ e.committed[i].request = r}

\* C19: in the streaming chat path the assistant message is persisted only
\* after the generation stream has been consumed to its end; when the client
\* disconnects while fragments are being streamed, no further fragment is
\* pulled from the generation stream and no assistant message with a partial
\* response is persisted.
C19_NoPartialResponsePersisted ==
    [][/\ AssistantRows(es', es'.request) # {} =>
              /\ es'.consumed = Len(es'.fragments)
              /\ \A i \in AssistantRows(es', es'.request) :
                    es'.committed[i].content = es'.fragments
       /\ es'.phase = "closed" => AssistantRows(es', es'.request) = {}
       /\ (es.phase = "closed" /\ es'.request = es.request) => es' = es]_vars

\* The client left after the first of several fragments
C19_Witness ==
    /\ es.phase = "closed"
    /\ es.consumed = 1 /\ Len(es.fragments) > 1
    /\ AssistantRows(es, es.request) = {}

-----------------------------------------------------------------------------
(* get_chroma_client step by step: vector_store.py lines 28-117 *)

CHROMA_HEARTBEAT_INTERVAL == 60
CHROMA_MAX_RETRIES == 3
CHROMA_RETRY_DELAY == 2

MaxChromaCalls == 3
\* time.time() at start-up, far more than a heartbeat interval after the epoch
ChromaStartTime == 100
ChromaTickStep == 30
MaxChromaTime == 220

\* A faulty variant of the freshness test: a check exactly 60 s old is fresh
cached_client_fresh_inclusive(current_time, last_check) ==
    current_time - last_check <= CHROMA_HEARTBEAT_INTERVAL

\* Line 46: the cached client is returned without a heartbeat
cached_client_fresh(current_time, last_check) ==
    current_time - last_check < CHROMA_HEARTBEAT_INTERVAL

\* What a connection attempt can do: the constructor raises, the constructor
\* succeeds and the heartbeat raises, both succeed
AttemptOutcomes == {"connect_fails", "heartbeat_fails", "ok"}

InitChroma ==
    /\ now = ChromaStartTime
    /\ sosSetting = None
    /\ sosCache = None
    /\ sosCacheTime = None
    /\ session = "conversation"
    /\ auditLog = <<>>
    /\ redis = <<>>
    /\ store = <<>>
    /\ bm25 = NoIndex
    /\ lastModel = None
    /\ chat = IdleChat
    /\ rq = IdleRq
    /\ hs = IdleHs
    /\ sk = IdleSk
    /\ files = {}
    /\ kb = IdleKb
    /\ gn = IdleGn
    /\ chroma = NoChroma
    /\ cc = IdleCc
    /\ es = IdleEs
    /\ asm = IdleAsm
    /\ pr = IdlePr
    /\ cfg = IdleCfg

ChromaUnchanged ==
    UNCHANGED <<sosSetting, sosCache, sosCacheTime, session, auditLog, redis,
                store, bm25, lastModel, chat, rq, hs, sk, files, kb, gn, es, asm, pr, cfg>>

\* The locals of a call that has just read the clock (line 41)
ChromaEntered ==
    [cc EXCEPT !.calls = cc.calls + 1, !.attempt = 0, !.retry_delay = 0,
               !.current_time = now, !.outcomes = <<>>, !.sleeps = <<>>,
               !.cached_heartbeat = FALSE, !.result = None]

\* Lines 60-61: the retry loop is entered
ChromaLoopEntered(c) ==
    [c EXCEPT !.phase = "connecting", !.attempt = 0,
              !.retry_delay = CHROMA_RETRY_DELAY]

\* Lines 41-61: the call up to its return or to the entry of the retry loop
ChromaCall ==
    /\ cc.phase \in {"idle", "returned", "raised"}
    /\ cc.calls < MaxChromaCalls
    /\ \E heartbeatOk \in BOOLEAN :
          IF chroma.client # None
          THEN IF cached_client_fresh(now, chroma.last_check)
               THEN /\ cc' = [ChromaEntered EXCEPT !.phase = "returned",
                                                   !.result = chroma.client]
                    /\ chroma' = chroma
               ELSE IF heartbeatOk
                    THEN /\ cc' = [ChromaEntered EXCEPT !.phase = "returned",
                                                        !.cached_heartbeat = TRUE,
                                                        !.result = chroma.client]
                         /\ chroma' = [chroma EXCEPT !.last_check = now,
                                                     !.heartbeat_at = now]
                    ELSE /\ cc' = [ChromaLoopEntered(ChromaEntered)
                                      EXCEPT !.cached_heartbeat = TRUE]
                         /\ chroma' = [chroma EXCEPT !.client = None,
                                                     !.heartbeat_at = -1]
          ELSE /\ cc' = ChromaLoopEntered(ChromaEntered)
               /\ chroma' = chroma
    /\ UNCHANGED now
    /\ ChromaUnchanged

\* Lines 93-117: after a failed attempt the call sleeps if attempts remain
\* and raises VectorStoreError otherwise
ChromaAttemptFailed(c) ==
    IF c.attempt < CHROMA_MAX_RETRIES - 1
    THEN [c EXCEPT !.phase = "sleeping", !.sleeps = Append(c.sleeps, c.retry_delay)]
    ELSE [c EXCEPT !.phase = "raised"]

\* Lines 63-79: one connection attempt.  The client is assigned before its
\* heartbeat is tried, so an attempt whose heartbeat raises leaves the new,
\* unverified client in the global.
ChromaAttempt ==
    /\ cc.phase = "connecting"
    /\ \E outcome \in AttemptOutcomes :
          LET c == [cc EXCEPT !.outcomes = Append(cc.outcomes, outcome)]
          IN  CASE outcome = "connect_fails" ->
                     /\ cc' = ChromaAttemptFailed(c)
                     /\ chroma' = chroma
                [] outcome = "heartbeat_fails" ->
                     /\ cc' = ChromaAttemptFailed([c EXCEPT !.made = cc.made + 1])
                     /\ chroma' = [chroma EXCEPT !.client = Some(cc.made + 1),
                                                 !.heartbeat_at = -1]
                [] outcome = "ok" ->
                     /\ cc' = [c EXCEPT !.phase = "returned", !.made = cc.made + 1,
                                        !.result = Some(cc.made + 1)]
                     /\ chroma' = [chroma EXCEPT !.client = Some(cc.made + 1),
                                                 !.last_check = cc.current_time,
                                                 !.heartbeat_at = now]
    /\ UNCHANGED now
    /\ ChromaUnchanged

\* Lines 99-101: time.sleep returns, the delay doubles, the loop continues
ChromaWake ==
    /\ cc.phase = "sleeping"
    /\ now' = now + cc.retry_delay
    /\ cc' = [cc EXCEPT !.phase = "connecting", !.attempt = cc.attempt + 1,
                        !.retry_delay = cc.retry_delay * 2]
    /\ UNCHANGED chroma
    /\ ChromaUnchanged

\* Time passes between two calls
ChromaTick ==
    /\ cc.phase \in {"idle", "returned", "raised"}
    /\ now + ChromaTickStep <= MaxChromaTime
    /\ now' = now + ChromaTickStep
    /\ UNCHANGED <<chroma, cc>>
    /\ ChromaUnchanged

NextChroma == ChromaCall \/ ChromaAttempt \/ ChromaWake \/ ChromaTick

SpecChroma == InitChroma /\ [][NextChroma]_vars

\* A running call keeps running: the thread is scheduled and time.sleep
\* returns
SpecChromaLive == SpecChroma /\ WF_vars(ChromaAttempt) /\ WF_vars(ChromaWake)

-----------------------------------------------------------------------------
(* Properties of get_chroma_client *)

ChromaRunning == cc.phase \in {"connecting", "sleeping"}
ChromaEnded == cc.phase \in {"returned", "raised"}

\* The waits of a call that made n attempts and goes on or has raised
ExpectedSleeps(n) == SubSeq(<<2, 4>>, 1, Min(n, 2))

C20_Bounded ==
    /\ Len(cc.outcomes) <= 3
    /\ ChromaRunning \/ ChromaEnded =>
          \A i \in 1..(Len(cc.outcomes) - 1) : cc.outcomes[i] # "ok"
    /\ cc.phase = "connecting" => cc.sleeps = ExpectedSleeps(Len(cc.outcomes))
    /\ (cc.phase = "returned" /\ cc.outcomes # <<>>) =>
          /\ cc.outcomes[Len(cc.outcomes)] = "ok"
          /\ cc.sleeps = ExpectedSleeps(Len(cc.outcomes) - 1)
          /\ cc.result = Some(cc.made) /\ chroma.client = cc.result
          /\ chroma.heartbeat_at >= cc.current_time
    /\ cc.phase = "raised" <=>
          /\ Len(cc.outcomes) = 3
          /\ \A i \in 1..3 : cc.outcomes[i] # "ok"
    /\ cc.phase = "raised" => cc.sleeps = <<2, 4>>

C20_CachedOnlyIfFresh ==
    (cc.phase = "returned" /\ cc.outcomes = <<>> /\ ~cc.cached_heartbeat) =>
        /\ cc.result = chroma.client /\ cc.result # None
        /\ chroma.heartbeat_at # -1
        /\ cc.current_time - chroma.heartbeat_at < 60

\* C20: get_chroma_client always terminates; without a usable cached client
\* it makes at most 3 connection attempts, waiting 2 s and then 4 s between
\* them, returns the client of the first attempt whose heartbeat succeeds
\* and raises VectorStoreError if and only if all 3 attempts fail; a cached
\* client is returned without a heartbeat only if its last successful
\* heartbeat is less than 60 s old.
C20_ConnectTerminatesBounded ==
    /\ [](C20_Bounded /\ C20_CachedOnlyIfFresh)
    /\ ChromaRunning ~> ChromaEnded

\* The third call found no usable client and connected at its third attempt,
\* after waiting 2 s and 4 s
C20_Witness ==
    /\ cc.phase = "returned"
    /\ cc.calls = 3
    /\ Len(cc.outcomes) = 3
    /\ cc.sleeps = <<2, 4>>
    /\ chroma.last_check < now

-----------------------------------------------------------------------------
(* rag_query requests beside a delete_knowledge_file request, step by step:
   rag_service.py lines 613-662, knowledge.py lines 306-350,
   semantic_cache.py lines 119-142 *)

MaxRaceRuns == 2

RaceQueries == {<<"a">>, <<"b">>}

RaceFiles == {"f1.pdf", "f2.pdf"}

InitRace ==
    /\ now = 0
    /\ sosSetting = None
    /\ sosCache = None
    /\ sosCacheTime = None
    /\ session = "none"
    /\ auditLog = <<>>
    /\ redis = [k \in {generate_cache_key(Embedding(q)) : q \in RaceQueries} |-> None]
    /\ store = ingest_pdf(ingest_pdf(<<>>, "f1.pdf", <<T1>>, [i \in 1..2 |-> TRUE],
                                     FALSE).store,
                          "f2.pdf", <<T2>>, [i \in 1..2 |-> TRUE], FALSE).store
    /\ bm25 = NoIndex
    /\ lastModel = None
    /\ chat = IdleChat
    /\ rq = IdleRq
    /\ hs = IdleHs
    /\ sk = IdleSk
    /\ files = RaceFiles
    /\ kb = IdleKb
    /\ gn = IdleGn
    /\ chroma = NoChroma
    /\ cc = IdleCc
    /\ es = IdleEs
    /\ asm = IdleAsm
    /\ pr = IdlePr
    /\ cfg = IdleCfg

RaceUnchanged ==
    UNCHANGED <<now, sosSetting, sosCache, sosCacheTime, session, auditLog, chat,
                rq, hs, sk, kb, gn, chroma, cc, es, asm, cfg>>

\* Lines 620-626: the request returns the cached pair
QueryHit(p, query, cached_result) ==
    /\ pr' = [pr EXCEPT !.qry[p] = [IdleQry EXCEPT
                  !.pc = "done", !.runs = pr.qry[p].runs + 1, !.query = query,
                  !.hit = TRUE, !.response = cached_result[1][1],
                  !.sources = cached_result[1][2]]]
    /\ UNCHANGED bm25

\* Lines 631-643: search, rerank, build the context; the request is then
\* suspended at the await of load_sys_prompt
QueryRetrieved(p, query, search, built) ==
    /\ pr' = [pr EXCEPT !.qry[p] = [IdleQry EXCEPT
                  !.pc = "retrieved", !.runs = pr.qry[p].runs + 1, !.query = query,
                  !.context = built.context, !.sources = built.sources]]
    /\ bm25' = search.bm25

QuerySearched(p, query, search) ==
    QueryRetrieved(p, query, search,
                   build_context(rerank_results(search.results, RAG_TOP_K)))

\* rag_query from its start to its suspension at line 643, or to its return
\* on a cache hit
QueryGet(p) ==
    /\ pr.qry[p].pc \in {"idle", "done"}
    /\ pr.qry[p].runs < MaxRaceRuns
    /\ \E query \in RaceQueries :
          IF SemanticCache_get(redis, now, Embedding(query), FALSE) # None
          THEN QueryHit(p, query,
                        SemanticCache_get(redis, now, Embedding(query), FALSE))
          ELSE \E V \in VectorAnswers(bm25, store, now, KbQd, RAG_SEARCH_TOP_K) :
                  QuerySearched(p, query,
                      hybrid_search(bm25, store, now, KbQs, KbQd, V, DEFAULT_ALPHA,
                                    RAG_SEARCH_TOP_K, "none"))
    /\ UNCHANGED <<redis, store, lastModel, files>>
    /\ RaceUnchanged

QueryStored(p, gen, sources, set) ==
    /\ pr' = [pr EXCEPT !.qry[p].pc = "done", !.qry[p].response = gen.text,
                        !.qry[p].sources = sources, !.qry[p].stored = set.ok]
    /\ redis' = set.redis
    /\ lastModel' = gen.lastModel

QueryGenerated(p, q, gen) ==
    QueryStored(p, gen, IF q.context # <<>> THEN q.sources ELSE <<>>,
        IF ShouldCache(TRUE, q.context)
        THEN SemanticCache_set(redis, now, Embedding(q.query), gen.text, q.sources,
                               FALSE)
        ELSE [redis |-> redis, ok |-> FALSE])

\* Lines 645-662: the request resumes, generates the answer from the context
\* it holds and stores the pair in the Result Cache
QueryFinish(p) ==
    /\ pr.qry[p].pc = "retrieved"
    /\ \E modelOk \in {AllOk, NoneOk} :
          QueryGenerated(p, pr.qry[p],
              IF pr.qry[p].context # <<>>
              THEN generate_response(lastModel, modelOk, [text |-> "r1", tags |-> FALSE])
              ELSE [text |-> NO_CONTEXT_MESSAGE, lastModel |-> lastModel,
                    tried |-> <<>>, ok |-> TRUE])
    /\ UNCHANGED <<store, bm25, files>>
    /\ RaceUnchanged

\* knowledge.py lines 306-332 and semantic_cache.py lines 126-130: 404 for
\* a file that is not there; otherwise the chunks are deleted, the lexical
\* index invalidated and clear_all asks Redis for the keys
DeleteStart ==
    /\ pr.del.pc = "idle"
    /\ \E filename \in RaceFiles :
          IF filename \notin files
          THEN /\ pr' = [pr EXCEPT !.del = [IdleDel EXCEPT !.pc = "returned",
                                     !.filename = filename, !.status = "not_found"]]
               /\ UNCHANGED <<store, bm25>>
          ELSE /\ pr' = [pr EXCEPT !.del = [IdleDel EXCEPT !.pc = "clearing",
                                     !.filename = filename,
                                     !.keys = {k \in DOMAIN redis :
                                                  RedisGet(redis, now, k) # None}]]
               /\ store' = delete_document(store, filename)
               /\ bm25' = invalidate_bm25_cache(bm25)
    /\ UNCHANGED <<redis, lastModel, files>>
    /\ RaceUnchanged

\* semantic_cache.py lines 132-137 and knowledge.py lines 336-344: the keys
\* found are deleted, the file is unlinked, the request returns
DeleteClear ==
    /\ pr.del.pc = "clearing"
    /\ redis' = [k \in DOMAIN redis |-> IF k \in pr.del.keys THEN None ELSE redis[k]]
    /\ files' = files \ {pr.del.filename}
    /\ pr' = [pr EXCEPT !.del.pc = "returned", !.del.status = "ok"]
    /\ UNCHANGED <<store, bm25, lastModel>>
    /\ RaceUnchanged

NextRace ==
    \/ \E p \in RaceProcs : QueryGet(p)
    \/ \E p \in RaceProcs : QueryFinish(p)
    \/ DeleteStart
    \/ DeleteClear

SpecRace == InitRace /\ [][NextRace]_vars

-----------------------------------------------------------------------------
(* Properties of the concurrent requests *)

\* The sources list cites document f
Cites(sources, f) == \E i \in 1..Len(sources) : sources[i].title = f

\* The live entries of the Result Cache
LiveEntries ==
    {json_loads(RedisGet(redis, now, k)[1]) :
        k \in {kk \in DOMAIN redis : RedisGet(redis, now, kk) # None}}

\* C21: under any interleaving of a delete_knowledge_file(f) request with
\* concurrent rag_query requests, once the delete request has returned the
\* Result Cache holds no entry whose sources cite f: a query that retrieved
\* chunks of f before the deletion cannot store its answer after the cache
\* was cleared.
C21_NoStaleEntryAfterDelete ==
    (pr.del.pc = "returned" /\ pr.del.status = "ok") =>
        \A e \in LiveEntries : ~Cites(e.sources, pr.del.filename)


\* C22: the safety gate cannot be silently disabled through configuration:
\* for every sos_keywords value the admin configuration API accepts, and for
\* a missing or unreadable setting, the list load_sos_keywords returns (and
\* caches, lines 94-96) is non-empty and holds no empty keyword.
C22_KeywordListNeverEmpty ==
    sosCache # None =>
        /\ sosCache[1] # <<>>
        /\ \A i \in 1..Len(sosCache[1]) : sosCache[1][i] # <<>>


\* C23: on the streaming endpoint, for every valid session, a fresh one
\* whose conversation_id is still 'pending' included, a message that
\* triggers the safety gate gets the crisis frame followed by the done
\* marker, never an error frame (no database operation failing).
C23_StreamCrisisOnAnySession ==
    [][(/\ chat' # chat
        /\ chat'.endpoint = "chat_event_stream"
        /\ session # "none"
        /\ chat'.is_crisis
        /\ ~chat'.db_failed) => chat'.outcome = "crisis"]_vars


\* The live Result Cache entry of the query, if any, holds the apology
ApologyCached(r, t, query) ==
    /\ RedisGet(r, t, generate_cache_key(Embedding(query))) # None
    /\ json_loads(RedisGet(r, t, generate_cache_key(Embedding(query)))[1]).response
          = APOLOGY_GENERATION

\* C24: the Result Cache never stores a degradation answer: after a
\* rag_query in which every generation model failed, the cache holds no
\* entry with the apology for that query's embedding, and a later identical
\* query is not answered with a cached apology.
C24_ApologyNeverCached ==
    [][/\ (NextOp("rag_query") /\ "generation" \in rq'.failed) =>
              ~ApologyCached(redis', now, rq'.query)
       /\ NextOp("rag_query") =>
              ~(rq'.hit /\ rq'.response = APOLOGY_GENERATION)]_vars


\* C25: on the streaming chat endpoint, when retrieval produces an empty
\* context, the generation capability is not called: the user receives the
\* fixed 'insufficient knowledge' answer, as from rag_query, and no model
\* output produced without grounding is streamed or persisted.
C25_StreamNoGenerationWithoutContext ==
    (es.phase \in {"streaming", "done", "closed"} /\ es.context = <<>>) =>
        /\ es.gen_calls = 0
        /\ \A i \in 1..Len(es.full_response) :
              es.full_response[i] = NO_CONTEXT_MESSAGE
        /\ \A i \in AssistantRows(es, es.request) :
              es.committed[i].content = <<NO_CONTEXT_MESSAGE>>

-----------------------------------------------------------------------------
(* Crisis hotlines and custom system prompt: safety.py lines 131-208,
   rag_service.py lines 31-81, admin/config.py lines 100-197 *)

HOTLINES_CACHE_TTL == 300

SYS_PROMPT_CACHE_TTL == 300

\* The built-in hotline list: three entries with name, number, available
DEFAULT_CRISIS_HOTLINES ==
    << [type |-> "dict", keys |-> {"name", "number", "available"}, id |-> "d1"],
       [type |-> "dict", keys |-> {"name", "number", "available"}, id |-> "d2"],
       [type |-> "dict", keys |-> {"name", "number", "available"}, id |-> "d3"] >>

\* The texts a crisis_hotlines value can be, by what json.loads makes of
\* them: an empty array, an array of one hotline, an array of a number, an
\* array of an object without number, an object, and a text that is no JSON
HotlineTexts ==
    {"[]", "[{name,number}]", "[1]", "[{name}]", "{}", "not json"}

\* json.loads(value): ok is FALSE when JSONDecodeError is raised
json_loads_value(text) ==
    CASE text = "[]" -> [ok |-> TRUE, type |-> "list", value |-> <<>>]
      [] text = "[{name,number}]" ->
            [ok |-> TRUE, type |-> "list",
             value |-> <<[type |-> "dict", keys |-> {"name", "number"}, id |-> "h1"]>>]
      [] text = "[1]" ->
            [ok |-> TRUE, type |-> "list", value |-> <<[type |-> "int", keys |-> {}, id |-> "1"]>>]
      [] text = "[{name}]" ->
            [ok |-> TRUE, type |-> "list",
             value |-> <<[type |-> "dict", keys |-> {"name"}, id |-> "h2"]>>]
      [] text = "{}" -> [ok |-> TRUE, type |-> "dict", value |-> <<>>]
      [] OTHER -> [ok |-> FALSE, type |-> "none", value |-> <<>>]

\* admin/config.py _validate_config_value for key "crisis_hotlines" on the
\* parsed value
ValidHotlines(parsed) ==
    /\ parsed.ok
    /\ parsed.type = "list"
    /\ \A i \in 1..Len(parsed.value) :
          /\ parsed.value[i].type = "dict"
          /\ {"name", "number"} \subseteq parsed.value[i].keys

ValidHotlinesValue(text) == ValidHotlines(json_loads_value(text))

\* The cache test of load_crisis_hotlines (lines 147-149)
HotlinesCacheValid(cache, cacheTime, t) ==
    /\ cache # None
    /\ cacheTime # None
    /\ t - cacheTime[1] < HOTLINES_CACHE_TTL

\* Lines 159-169: the row holds a value; invalid JSON gives the defaults
\* without caching them
load_crisis_hotlines_parsed(cache, cacheTime, t, parsed) ==
    IF parsed.ok
    THEN [hotlines |-> parsed.value, cache |-> Some(parsed.value),
          cacheTime |-> Some(t), read |-> TRUE]
    ELSE [hotlines |-> DEFAULT_CRISIS_HOTLINES, cache |-> cache,
          cacheTime |-> cacheTime, read |-> TRUE]

\* load_crisis_hotlines(db): the list returned and the module cache after
\* the call.  row is the crisis_hotlines row, readRaises says db.execute
\* raises.
load_crisis_hotlines(cache, cacheTime, t, row, readRaises) ==
    IF HotlinesCacheValid(cache, cacheTime, t)
    THEN [hotlines |-> cache[1], cache |-> cache, cacheTime |-> cacheTime,
          read |-> FALSE]
    ELSE IF readRaises
    THEN [hotlines |-> DEFAULT_CRISIS_HOTLINES, cache |-> cache,
          cacheTime |-> cacheTime, read |-> TRUE]
    ELSE IF row # None /\ row[1] # ""
    THEN load_crisis_hotlines_parsed(cache, cacheTime, t, json_loads_value(row[1]))
    ELSE [hotlines |-> DEFAULT_CRISIS_HOTLINES, cache |-> Some(DEFAULT_CRISIS_HOTLINES),
          cacheTime |-> Some(t), read |-> TRUE]

\* get_crisis_response(hotlines): the payload, of which the model keeps the
\* hotline list; hotlines is the optional argument
get_crisis_response(hotlines) ==
    [is_crisis |-> TRUE,
     hotlines |-> IF hotlines = None THEN DEFAULT_CRISIS_HOTLINES ELSE hotlines[1]]

\* load_sys_prompt(db) (rag_service.py lines 39-81): the prompt returned
\* (None: use the default) and the module cache after the call.  A read that
\* finds no value sets the cache time and leaves the cached prompt as it is.
load_sys_prompt(cache, cacheTime, t, row, readRaises) ==
    IF cache # None /\ cacheTime # None /\ t - cacheTime[1] < SYS_PROMPT_CACHE_TTL
    THEN [prompt |-> cache, cache |-> cache, cacheTime |-> cacheTime, read |-> FALSE]
    ELSE IF readRaises
    THEN [prompt |-> None, cache |-> cache, cacheTime |-> cacheTime, read |-> TRUE]
    ELSE IF row # None /\ row[1] # ""
    THEN [prompt |-> Some(row[1]), cache |-> Some(row[1]), cacheTime |-> Some(t),
          read |-> TRUE]
    ELSE [prompt |-> None, cache |-> cache, cacheTime |-> Some(t), read |-> TRUE]

-----------------------------------------------------------------------------
(* Specification of the configuration-backed settings *)

MaxCfgOps == 4

CfgTickStep == 150

MaxCfgTime == 600

\* The values the sys_prompt row can hold: two custom prompts, or empty
SysPromptValues == {"P1", "P2", ""}

InitCfg ==
    /\ now = 0
    /\ sosSetting = None
    /\ sosCache = None
    /\ sosCacheTime = None
    /\ session = "none"
    /\ auditLog = <<>>
    /\ redis = <<>>
    /\ store = <<>>
    /\ bm25 = NoIndex
    /\ lastModel = None
    /\ chat = IdleChat
    /\ rq = IdleRq
    /\ hs = IdleHs
    /\ sk = IdleSk
    /\ files = {}
    /\ kb = IdleKb
    /\ gn = IdleGn
    /\ chroma = NoChroma
    /\ cc = IdleCc
    /\ es = IdleEs
    /\ asm = IdleAsm
    /\ pr = IdlePr
    /\ \E hrow \in {None, Some("not json"), Some("[{name,number}]")},
          srow \in {None, Some("P1")} :
          cfg = [IdleCfg EXCEPT !.hotlines_row = hrow, !.sys_row = srow,
                                !.sys_unset_since = IF srow = None THEN Some(0)
                                                    ELSE None]

CfgUnchanged ==
    UNCHANGED <<sosSetting, sosCache, sosCacheTime, session, auditLog, redis, store,
                bm25, lastModel, chat, rq, hs, sk, files, kb, gn, chroma, cc, es,
                asm, pr>>

\* PUT /admin/config/crisis_hotlines: the row must exist, the value must pass
UpdateHotlines ==
    /\ cfg.seq < MaxCfgOps
    /\ cfg.hotlines_row # None
    /\ \E text \in HotlineTexts :
          /\ ValidHotlinesValue(text)
          /\ cfg' = [cfg EXCEPT !.hotlines_row = Some(text), !.op = "update_hotlines",
                                !.seq = cfg.seq + 1]
    /\ UNCHANGED now
    /\ CfgUnchanged

CrisisAnswered(l) ==
    cfg' = [cfg EXCEPT !.hotlines_cache = l.cache, !.hotlines_cache_time = l.cacheTime,
                       !.op = "crisis", !.seq = cfg.seq + 1, !.read = l.read,
                       !.hotlines = get_crisis_response(Some(l.hotlines)).hotlines]

\* The crisis branch of either endpoint (chat.py 126-130, chat_stream.py
\* 72-73): the hotlines are loaded and placed in the payload
CrisisResponse ==
    /\ cfg.seq < MaxCfgOps
    /\ \E readRaises \in BOOLEAN :
          CrisisAnswered(load_crisis_hotlines(cfg.hotlines_cache,
                             cfg.hotlines_cache_time, now, cfg.hotlines_row, readRaises))
    /\ UNCHANGED now
    /\ CfgUnchanged

\* The sys_prompt row is written, emptied or deleted in the configuration
\* store
SetSysPrompt ==
    /\ cfg.seq < MaxCfgOps
    /\ \E row \in {None} \cup {Some(v) : v \in SysPromptValues} :
          /\ row # cfg.sys_row
          /\ cfg' = [cfg EXCEPT
                !.sys_row = row, !.op = "set_sys_prompt", !.seq = cfg.seq + 1,
                !.sys_unset_since =
                    IF row # None /\ row[1] # "" THEN None
                    ELSE IF cfg.sys_unset_since # None THEN cfg.sys_unset_since
                    ELSE Some(now),
                !.sys_notfound_at =
                    IF row # None /\ row[1] # "" THEN None ELSE cfg.sys_notfound_at]
    /\ UNCHANGED now
    /\ CfgUnchanged

SysPromptLoaded(l, readRaises) ==
    cfg' = [cfg EXCEPT !.sys_cache = l.cache, !.sys_cache_time = l.cacheTime,
                       !.op = "load_sys_prompt", !.seq = cfg.seq + 1,
                       !.prompt = l.prompt, !.read = l.read,
                       !.sys_notfound_at =
                           IF l.read /\ ~readRaises
                           THEN IF l.prompt = None THEN Some(now) ELSE None
                           ELSE cfg.sys_notfound_at]

\* await load_sys_prompt(db)
LoadSysPrompt ==
    /\ cfg.seq < MaxCfgOps
    /\ \E readRaises \in BOOLEAN :
          SysPromptLoaded(load_sys_prompt(cfg.sys_cache, cfg.sys_cache_time, now,
                                          cfg.sys_row, readRaises), readRaises)
    /\ UNCHANGED now
    /\ CfgUnchanged

CfgTick ==
    /\ now + CfgTickStep <= MaxCfgTime
    /\ now' = now + CfgTickStep
    /\ UNCHANGED cfg
    /\ CfgUnchanged

NextCfg == UpdateHotlines \/ CrisisResponse \/ SetSysPrompt \/ LoadSysPrompt \/ CfgTick

SpecCfg == InitCfg /\ [][NextCfg]_vars

-----------------------------------------------------------------------------
(* Properties of the configuration-backed settings *)

CfgStep(op) == cfg'.seq = cfg.seq + 1 /\ cfg'.op = op

\* C26: every crisis payload returned to a user contains at least one
\* hotline: for every crisis_hotlines value the admin configuration API
\* accepts, and when the setting is missing, unreadable or not valid JSON,
\* the hotline list load_crisis_hotlines produces and get_crisis_response
\* places in the payload is non-empty.
C26_CrisisPayloadHasHotline ==
    [][CfgStep("crisis") => cfg'.hotlines # <<>>]_vars

\* C27: load_sys_prompt serves a custom prompt for at most the 300 s TTL
\* after it stopped being the configured value: once the sys_prompt row has
\* been missing or empty for 300 s, every later call returns None; and a
\* 'not found' result is reused for 300 s without a new configuration read.
C27_SysPromptCacheTtl ==
    [][CfgStep("load_sys_prompt") =>
          /\ (cfg.sys_unset_since # None /\ now - cfg.sys_unset_since[1] >= 300) =>
                cfg'.prompt = None
          /\ (cfg.sys_notfound_at # None /\ now - cfg.sys_notfound_at[1] < 300) =>
                ~cfg'.read]_vars

-----------------------------------------------------------------------------
(* _get_bm25_index and invalidate_bm25_cache statement by statement, as run
   by concurrent requests: rag_service.py lines 155-207 *)

MaxIndexRuns == 2

MaxAdminRuns == 1

IndexTickStep == 300

MaxIndexTime == 300

\* The request id of the admin request
AdminProc == Cardinality(RaceProcs) + 1

\* The corpora the admin request switches between
IndexStores ==
    {ingest_pdf(<<>>, "f1.pdf", <<T1>>, [i \in 1..2 |-> TRUE], FALSE).store,
     ingest_pdf(<<>>, "f1.pdf", <<T1, T2>>, [i \in 1..2 |-> TRUE], FALSE).store}

\* A scheduler that preempts: any request runs at any statement (threads)
CanRunPreemptive(p) == TRUE

\* The event loop runs one request at a time and switches only at an await;
\* _get_bm25_index, hybrid_search and invalidate_bm25_cache are plain
\* functions without await
CanRun(p) == pr.running \in {0, p}

InitIndex ==
    /\ now = 0
    /\ sosSetting = None
    /\ sosCache = None
    /\ sosCacheTime = None
    /\ session = "none"
    /\ auditLog = <<>>
    /\ redis = <<>>
    /\ store \in IndexStores
    /\ bm25 = NoIndex
    /\ lastModel = None
    /\ chat = IdleChat
    /\ rq = IdleRq
    /\ hs = IdleHs
    /\ sk = IdleSk
    /\ files = {}
    /\ kb = IdleKb
    /\ gn = IdleGn
    /\ chroma = NoChroma
    /\ cc = IdleCc
    /\ es = IdleEs
    /\ asm = IdleAsm
    /\ pr = IdlePr
    /\ cfg = IdleCfg

IndexUnchanged ==
    UNCHANGED <<sosSetting, sosCache, sosCacheTime, session, auditLog, redis,
                lastModel, chat, rq, hs, sk, files, kb, gn, chroma, cc, es, asm, cfg>>

\* Lines 166-172: the clock is read and the cache tested
IndexBegin(p) ==
    /\ CanRun(p)
    /\ pr.rd[p].pc \in {"idle", "done"}
    /\ pr.rd[p].runs < MaxIndexRuns
    /\ pr' = [pr EXCEPT
          !.running = p,
          !.rd[p] = [IdleRd EXCEPT
              !.runs = pr.rd[p].runs + 1, !.current_time = now,
              !.hit = /\ bm25.cache # None /\ bm25.cache_time # None
                      /\ now - bm25.cache_time[1] < BM25_CACHE_TTL,
              !.pc = IF /\ bm25.cache # None /\ bm25.cache_time # None
                        /\ now - bm25.cache_time[1] < BM25_CACHE_TTL
                     THEN "ret_index" ELSE "fetch"]]
    /\ UNCHANGED <<now, store, bm25>>
    /\ IndexUnchanged

\* Line 173, first operand: self._bm25_cache
IndexRetIndex(p) ==
    /\ CanRun(p)
    /\ pr.rd[p].pc = "ret_index"
    /\ pr' = [pr EXCEPT !.rd[p].pc = "ret_documents", !.rd[p].ret.index = bm25.cache]
    /\ UNCHANGED <<now, store, bm25>>
    /\ IndexUnchanged

\* Line 173, second operand: self._corpus_cache or []
IndexRetDocuments(p) ==
    /\ CanRun(p)
    /\ pr.rd[p].pc = "ret_documents"
    /\ pr' = [pr EXCEPT !.rd[p].pc = "ret_metadatas",
                        !.rd[p].ret.documents =
                            IF bm25.corpus = None THEN <<>> ELSE bm25.corpus[1]]
    /\ UNCHANGED <<now, store, bm25>>
    /\ IndexUnchanged

\* Line 173, third operand, and the return
IndexRetMetadatas(p) ==
    /\ CanRun(p)
    /\ pr.rd[p].pc = "ret_metadatas"
    /\ pr' = [pr EXCEPT !.running = 0, !.rd[p].pc = "done",
                        !.rd[p].ret.metadatas =
                            IF bm25.metadatas = None THEN <<>> ELSE bm25.metadatas[1]]
    /\ UNCHANGED <<now, store, bm25>>
    /\ IndexUnchanged

\* Lines 177-186: the corpus is fetched; an empty corpus is returned as
\* (None, [], []) and the cache is left alone
IndexFetch(p) ==
    /\ CanRun(p)
    /\ pr.rd[p].pc = "fetch"
    /\ pr' = IF store = <<>>
             THEN [pr EXCEPT !.running = 0, !.rd[p].pc = "done"]
             ELSE [pr EXCEPT
                     !.rd[p].pc = "set_cache",
                     !.rd[p].documents = [i \in 1..Len(store) |-> store[i].text],
                     !.rd[p].metadatas = [i \in 1..Len(store) |-> store[i].meta],
                     !.builds = pr.builds \cup
                        {[documents |-> [i \in 1..Len(store) |-> store[i].text],
                          metadatas |-> [i \in 1..Len(store) |-> store[i].meta],
                          time |-> pr.rd[p].current_time]}]
    /\ UNCHANGED <<now, store, bm25>>
    /\ IndexUnchanged

\* Lines 188-193: the index is built and assigned
IndexSetCache(p) ==
    /\ CanRun(p)
    /\ pr.rd[p].pc = "set_cache"
    /\ bm25' = [bm25 EXCEPT !.cache = Some(BM25Okapi(pr.rd[p].documents))]
    /\ pr' = [pr EXCEPT !.rd[p].pc = "set_corpus"]
    /\ UNCHANGED <<now, store>>
    /\ IndexUnchanged

\* Line 194
IndexSetCorpus(p) ==
    /\ CanRun(p)
    /\ pr.rd[p].pc = "set_corpus"
    /\ bm25' = [bm25 EXCEPT !.corpus = Some(pr.rd[p].documents)]
    /\ pr' = [pr EXCEPT !.rd[p].pc = "set_metadatas"]
    /\ UNCHANGED <<now, store>>
    /\ IndexUnchanged

\* Line 195
IndexSetMetadatas(p) ==
    /\ CanRun(p)
    /\ pr.rd[p].pc = "set_metadatas"
    /\ bm25' = [bm25 EXCEPT !.metadatas = Some(pr.rd[p].metadatas)]
    /\ pr' = [pr EXCEPT !.rd[p].pc = "set_time"]
    /\ UNCHANGED <<now, store>>
    /\ IndexUnchanged

\* Lines 196-199: the build time is assigned and the locals returned
IndexSetTime(p) ==
    /\ CanRun(p)
    /\ pr.rd[p].pc = "set_time"
    /\ bm25' = [bm25 EXCEPT !.cache_time = Some(pr.rd[p].current_time)]
    /\ pr' = [pr EXCEPT !.running = 0, !.rd[p].pc = "done",
                        !.rd[p].ret = [index |-> Some(BM25Okapi(pr.rd[p].documents)),
                                       documents |-> pr.rd[p].documents,
                                       metadatas |-> pr.rd[p].metadatas]]
    /\ UNCHANGED <<now, store>>
    /\ IndexUnchanged

\* An admin request changes the corpus (knowledge.py line 74 or 324) and
\* goes on to invalidate_bm25_cache without an await in between
AdminChange ==
    /\ CanRun(AdminProc)
    /\ pr.adm.pc \in {"idle", "done"}
    /\ pr.adm.runs < MaxAdminRuns
    /\ \E st \in IndexStores : st # store /\ store' = st
    /\ pr' = [pr EXCEPT !.running = AdminProc, !.adm.pc = "clear_cache",
                        !.adm.runs = pr.adm.runs + 1]
    /\ UNCHANGED <<now, bm25>>
    /\ IndexUnchanged

\* Line 203
AdminClearCache ==
    /\ CanRun(AdminProc)
    /\ pr.adm.pc = "clear_cache"
    /\ bm25' = [bm25 EXCEPT !.cache = None]
    /\ pr' = [pr EXCEPT !.adm.pc = "clear_time"]
    /\ UNCHANGED <<now, store>>
    /\ IndexUnchanged

\* Line 204
AdminClearTime ==
    /\ CanRun(AdminProc)
    /\ pr.adm.pc = "clear_time"
    /\ bm25' = [bm25 EXCEPT !.cache_time = None]
    /\ pr' = [pr EXCEPT !.adm.pc = "clear_corpus"]
    /\ UNCHANGED <<now, store>>
    /\ IndexUnchanged

\* Line 205
AdminClearCorpus ==
    /\ CanRun(AdminProc)
    /\ pr.adm.pc = "clear_corpus"
    /\ bm25' = [bm25 EXCEPT !.corpus = None]
    /\ pr' = [pr EXCEPT !.adm.pc = "clear_metadatas"]
    /\ UNCHANGED <<now, store>>
    /\ IndexUnchanged

\* Lines 206-207
AdminClearMetadatas ==
    /\ CanRun(AdminProc)
    /\ pr.adm.pc = "clear_metadatas"
    /\ bm25' = [bm25 EXCEPT !.metadatas = None]
    /\ pr' = [pr EXCEPT !.running = 0, !.adm.pc = "done"]
    /\ UNCHANGED <<now, store>>
    /\ IndexUnchanged

IndexTick ==
    /\ now + IndexTickStep <= MaxIndexTime
    /\ now' = now + IndexTickStep
    /\ UNCHANGED <<store, bm25, pr>>
    /\ IndexUnchanged

NextIndex ==
    \/ \E p \in RaceProcs : IndexBegin(p)
    \/ \E p \in RaceProcs : IndexRetIndex(p)
    \/ \E p \in RaceProcs : IndexRetDocuments(p)
    \/ \E p \in RaceProcs : IndexRetMetadatas(p)
    \/ \E p \in RaceProcs : IndexFetch(p)
    \/ \E p \in RaceProcs : IndexSetCache(p)
    \/ \E p \in RaceProcs : IndexSetCorpus(p)
    \/ \E p \in RaceProcs : IndexSetMetadatas(p)
    \/ \E p \in RaceProcs : IndexSetTime(p)
    \/ AdminChange
    \/ AdminClearCache
    \/ AdminClearTime
    \/ AdminClearCorpus
    \/ AdminClearMetadatas
    \/ IndexTick

SpecIndex == InitIndex /\ [][NextIndex]_vars

-----------------------------------------------------------------------------
(* Properties of the lexical index cache under concurrent requests *)

\* The four cache fields come from one corpus fetch, or are all cleared
IndexCoherent(b) ==
    \/ b = NoIndex
    \/ /\ b.cache # None /\ b.cache_time # None
       /\ b.corpus # None /\ b.metadatas # None
       /\ b.cache[1] = BM25Okapi(b.corpus[1])
       /\ Len(b.corpus[1]) = Len(b.metadatas[1])
       /\ [documents |-> b.corpus[1], metadatas |-> b.metadatas[1],
           time |-> b.cache_time[1]] \in pr.builds

\* The triple a caller obtained is (None, [], []) or comes from one fetch
TripleCoherent(ret) ==
    \/ ret = [index |-> None, documents |-> <<>>, metadatas |-> <<>>]
    \/ /\ ret.index # None
       /\ ret.index[1] = BM25Okapi(ret.documents)
       /\ Len(ret.documents) = Len(ret.metadatas)
       /\ Len(ret.index[1].corpus) = Len(ret.documents)
       /\ \E bd \in pr.builds :
             bd.documents = ret.documents /\ bd.metadatas = ret.metadatas

\* C28: under any interleaving of concurrent requests that rebuild and
\* invalidate the lexical index, the cached index, its document list, its
\* metadata list and its build time come from one and the same corpus fetch
\* or are all cleared together whenever another request can run, and no
\* reader obtains an index paired with documents or metadatas of another
\* build; the lists are as long as the number of indexed documents.
C28_IndexCacheCoherent ==
    /\ pr.running = 0 => IndexCoherent(bm25)
    /\ \A p \in RaceProcs : pr.rd[p].pc = "done" => TripleCoherent(pr.rd[p].ret)

\* A reader was served the cached index that the other reader had rebuilt
\* after an invalidation
C28_Witness ==
    /\ pr.adm.pc = "done"
    /\ \E p, q \in RaceProcs :
          /\ p # q
          /\ pr.rd[p].pc = "done" /\ pr.rd[p].hit
          /\ pr.rd[q].pc = "done" /\ ~pr.rd[q].hit
          /\ pr.rd[p].ret = pr.rd[q].ret
          /\ pr.rd[p].ret.documents = [i \in 1..Len(store) |-> store[i].text]
    /\ pr.running = 0

====
